---------------------------- MODULE Spec2Model ----------------------------
(***************************************************************************)
(* Model of the opinionated CDK wrapper constructs: the CloudWatch data    *)
(* protection policy document, and the default-resolution constructors of  *)
(* Bucket, SQSQueue, SnsTopic and DynamoDBTable.                           *)
(*                                                                         *)
(* Every operation is one synchronous call.  A state records the last call *)
(* made on a fresh scope: which operation (op), its argument (props) and   *)
(* its outcome (out): whether it threw, the constructs it added to the     *)
(* scope and the configuration forwarded to the underlying resource.       *)
(* Calls do not share state, so each behaviour makes one call.             *)
(***************************************************************************)
EXTENDS Bags, FiniteSets, Integers, Sequences, TLC

VARIABLES op, props, out

vars == <<op, props, out>>

-----------------------------------------------------------------------------
(* JavaScript values.  A property of a props object is either not a key of *)
(* the object (Absent), a key holding undefined, or a key holding a value. *)

Absent == [k |-> "absent"]
Undefined == [k |-> "undefined"]
Def(v) == [k |-> "value", v |-> v]

\* Reading props.f: a missing key reads as undefined.
Get(p, f) == IF p[f] = Absent THEN Undefined ELSE p[f]

IsDef(m) == m.k = "value"

\* Truthiness of a value that is undefined or a string, a number, a boolean,
\* an object.
TruthyStr(m) == IsDef(m) /\ m.v # ""
TruthyNum(m) == IsDef(m) /\ m.v # 0
TruthyBool(m) == IsDef(m) /\ m.v
TruthyObj(m) == IsDef(m)
\* Every member of the enumerations in use is a non-empty string.
TruthyEnum(m) == IsDef(m)

\* a ?? b
Coalesce(m, d) == IF IsDef(m) THEN m ELSE d

\* The object literal {}.
EmptyObject == <<>>

\* { ...defaults, ...p }: every key of p, also one holding undefined,
\* overrides the key of defaults.
Spread(defaults, p) ==
    [f \in (DOMAIN defaults) \cup (DOMAIN p) |->
        IF f \in DOMAIN p /\ p[f] # Absent THEN p[f]
        ELSE IF f \in DOMAIN defaults THEN defaults[f]
        ELSE Undefined]

-----------------------------------------------------------------------------
(* Strings and arrays.  CodeUnit gives the UTF-16 code unit of each         *)
(* character that occurs in a sorted string.                               *)

CodeUnit ==
    "-" :> 45 @@ "/" :> 47 @@ ":" :> 58 @@ "A" :> 65 @@ "E" :> 69 @@
    "K" :> 75 @@ "N" :> 78 @@ "P" :> 80 @@ "S" :> 83 @@ "U" :> 85 @@
    "a" :> 97 @@ "b" :> 98 @@ "c" :> 99 @@ "d" :> 100 @@ "e" :> 101 @@
    "f" :> 102 @@ "h" :> 104 @@ "i" :> 105 @@ "l" :> 108 @@ "m" :> 109 @@
    "n" :> 110 @@ "o" :> 111 @@ "p" :> 112 @@ "r" :> 114 @@ "s" :> 115 @@
    "t" :> 116 @@ "u" :> 117 @@ "w" :> 119 @@ "y" :> 121

\* s < t in the order of Array.prototype.sort() without a comparator:
\* by UTF-16 code units, a proper prefix first.
RECURSIVE StrLess(_, _)
StrLess(s, t) ==
    IF t = "" THEN FALSE
    ELSE IF s = "" THEN TRUE
    ELSE IF CodeUnit[Head(s)] # CodeUnit[Head(t)]
         THEN CodeUnit[Head(s)] < CodeUnit[Head(t)]
    ELSE StrLess(Tail(s), Tail(t))

Range(list) == {list[i] : i \in 1..Len(list)}

\* Array.prototype.indexOf, 1-based; 0 stands for -1.
IndexOf(list, x) ==
    IF x \in Range(list)
    THEN CHOOSE i \in 1..Len(list) : list[i] = x /\ \A j \in 1..(i - 1) : list[j] # x
    ELSE 0

\* Array.prototype.splice(index, 1).
Splice1(list, i) == SubSeq(list, 1, i - 1) \o SubSeq(list, i + 1, Len(list))

\* Array.from(new Set(list)): the first occurrence of each element, in order.
RECURSIVE ArrayFromSet(_)
ArrayFromSet(list) ==
    IF list = <<>> THEN <<>>
    ELSE LET rest == ArrayFromSet(SubSeq(list, 1, Len(list) - 1))
             last == list[Len(list)]
         IN IF last \in Range(rest) THEN rest ELSE Append(rest, last)

\* Array.prototype.sort() of strings.
RECURSIVE SortStrings(_)
SortStrings(list) ==
    IF list = <<>> THEN <<>>
    ELSE LET i == CHOOSE i \in 1..Len(list) :
                      \A j \in 1..Len(list) :
                          /\ ~StrLess(list[j], list[i])
                          /\ (list[j] = list[i] => i <= j)
         IN <<list[i]>> \o SortStrings(Splice1(list, i))

\* String.prototype.endsWith.
EndsWith(s, suffix) ==
    /\ Len(suffix) <= Len(s)
    /\ SubSeq(s, Len(s) - Len(suffix) + 1, Len(s)) = suffix

\* String.prototype.lastIndexOf, 0-based; -1 when there is no occurrence.
LastIndexOf(s, sub) ==
    LET at == {i \in 0..(Len(s) - Len(sub)) : SubSeq(s, i + 1, i + Len(sub)) = sub}
    IN IF at = {} THEN -1 ELSE CHOOSE i \in at : \A j \in at : j <= i

\* String.prototype.substr(start, length) and substring(start), 0-based.
Substr(s, start, length) ==
    SubSeq(s, start + 1, IF start + length > Len(s) THEN Len(s) ELSE start + length)
Substring(s, start) == SubSeq(s, start + 1, Len(s))

\* The character c repeated n times.
RECURSIVE Rep(_, _)
Rep(c, n) == IF n = 0 THEN "" ELSE c \o Rep(c, n - 1)

-----------------------------------------------------------------------------
(* cloudwatch-data-protection: data identifiers.  Every identifier starts  *)
(* with 'arn:aws:dataprotection::aws:data-identifier/'; it is written here *)
(* without that prefix, which leaves the order of two identifiers as it is.*)

ADDRESS_DATA_IDENTIFIER == "Address"
AWS_SECRET_KEY_DATA_IDENTIFIER == "AwsSecretKey"
EMAIL_DATA_IDENTIFIER == "EmailAddress"
SSN_US_DATA_IDENTIFIER == "Ssn-US"
SSN_ES_DATA_IDENTIFIER == "Ssn-ES"
PHONE_NUM_US_DATA_IDENTIFIER == "PhoneNumber-US"
NAME_US_DATA_IDENTIFIER == "Name"

DEFAULT_SENSITIVE_DATA_IDENTIFIERS ==
    << ADDRESS_DATA_IDENTIFIER,
       EMAIL_DATA_IDENTIFIER,
       SSN_US_DATA_IDENTIFIER,
       SSN_ES_DATA_IDENTIFIER,
       PHONE_NUM_US_DATA_IDENTIFIER,
       AWS_SECRET_KEY_DATA_IDENTIFIER >>

getCloudwatchAuditDestination(auditLogGroupName) ==
    [CloudWatchLogs |-> [LogGroup |-> auditLogGroupName]]

\* The forEach over excludeFromDefaultDataIdentifiers: each entry removes the
\* first occurrence of its identifier, if there is one.
RemoveOne(dataIdentifiers, identifier) ==
    LET index == IndexOf(dataIdentifiers, identifier)
    IN IF index # 0 THEN Splice1(dataIdentifiers, index) ELSE dataIdentifiers

RECURSIVE RemoveExcluded(_, _)
RemoveExcluded(dataIdentifiers, excluded) ==
    IF excluded = <<>> THEN dataIdentifiers
    ELSE RemoveExcluded(RemoveOne(dataIdentifiers, Head(excluded)), Tail(excluded))

\* ResolveDataIdentifiers without the deduplication.
ResolveDataIdentifiers_NoDedupe(p) ==
    LET added == DEFAULT_SENSITIVE_DATA_IDENTIFIERS
                    \o Coalesce(p.addToDefaultDataIdentifiers, Def(<<>>)).v
        kept == IF TruthyObj(p.excludeFromDefaultDataIdentifiers)
                THEN RemoveExcluded(added, p.excludeFromDefaultDataIdentifiers.v)
                ELSE added
    IN SortStrings(kept)

\* The identifier list of the policy: defaults, additions, exclusions, then
\* deduplication and sort.
ResolveDataIdentifiers(p) ==
    LET added == DEFAULT_SENSITIVE_DATA_IDENTIFIERS
                    \o Coalesce(p.addToDefaultDataIdentifiers, Def(<<>>)).v
        kept == IF TruthyObj(p.excludeFromDefaultDataIdentifiers)
                THEN RemoveExcluded(added, p.excludeFromDefaultDataIdentifiers.v)
                ELSE added
    IN SortStrings(ArrayFromSet(kept))

\* PolicyDocument with the audit destination built from whatever name is given.
PolicyDocument_AlwaysDestination(p, dataIdentifiers) ==
    [ Name |-> "data-protection-policy",
      Description |-> "Data protection policy for cloudwatch logs",
      Version |-> "2021-06-01",
      Statement |-> <<
        [ Sid |-> "redact-data-protection-policy",
          Operation |-> [Deidentify |-> [MaskConfig |-> EmptyObject]],
          DataIdentifier |-> dataIdentifiers ],
        [ Sid |-> "audit-data-protection-policy",
          Operation |-> [Audit |-> [FindingsDestination |->
              getCloudwatchAuditDestination(p.auditLogGroupName)]],
          DataIdentifier |-> dataIdentifiers ] >> ]

\* The document returned for a resolved, non-empty identifier list.
PolicyDocument(p, dataIdentifiers) ==
    [ Name |-> "data-protection-policy",
      Description |-> "Data protection policy for cloudwatch logs",
      Version |-> "2021-06-01",
      Statement |-> <<
        [ Sid |-> "redact-data-protection-policy",
          Operation |-> [Deidentify |-> [MaskConfig |-> EmptyObject]],
          DataIdentifier |-> dataIdentifiers ],
        [ Sid |-> "audit-data-protection-policy",
          Operation |-> [Audit |-> [FindingsDestination |->
              IF TruthyStr(p.auditLogGroupName)
              THEN getCloudwatchAuditDestination(p.auditLogGroupName.v)
              ELSE EmptyObject]],
          DataIdentifier |-> dataIdentifiers ] >> ]

\* cloudwatchDataProtectionPolicy(props): throws, or returns the document.
cloudwatchDataProtectionPolicy(p) ==
    LET dataIdentifiers == ResolveDataIdentifiers(p)
    IN IF Len(dataIdentifiers) = 0
       THEN [threw |-> TRUE]
       ELSE [threw |-> FALSE, policy |-> PolicyDocument(p, dataIdentifiers)]

-----------------------------------------------------------------------------
(* Inputs of cloudwatchDataProtectionPolicy.                               *)

\* Longest addToDefaultDataIdentifiers list.
MaxAdd == 2
\* Entries an exclusion list has beyond one entry per excluded identifier.
MaxExtraExclude == 1

IdentifierUniverse == Range(DEFAULT_SENSITIVE_DATA_IDENTIFIERS) \cup {NAME_US_DATA_IDENTIFIER}

\* Identifiers that additions are drawn from: two of the defaults and one
\* identifier that is not a default.
AddUniverse == {ADDRESS_DATA_IDENTIFIER, SSN_US_DATA_IDENTIFIER, NAME_US_DATA_IDENTIFIER}

SeqsUpTo(S, n) == UNION {[1..m -> S] : m \in 0..n}

\* The identifiers of a set as a list.
RECURSIVE ListOf(_)
ListOf(S) ==
    IF S = {} THEN <<>>
    ELSE LET x == CHOOSE x \in S : \A y \in S : ~StrLess(y, x)
         IN <<x>> \o ListOf(S \ {x})

AddLists == {Undefined} \cup {Def(l) : l \in SeqsUpTo(AddUniverse, MaxAdd)}

\* An exclusion list names each identifier of a set once, after up to
\* MaxExtraExclude further entries (repeats of the set or other identifiers).
ExcludeLists ==
    {Undefined} \cup
    {Def(extra \o ListOf(S)) :
        S \in SUBSET IdentifierUniverse,
        extra \in SeqsUpTo(AddUniverse, MaxExtraExclude)}

AuditLogGroupNames == {Undefined, Def(""), Def("audit")}

CwDataProtectionPolicyProps ==
    [ auditLogGroupName : AuditLogGroupNames,
      addToDefaultDataIdentifiers : AddLists,
      excludeFromDefaultDataIdentifiers : ExcludeLists ]

-----------------------------------------------------------------------------
(* Constructs.  A scope is the list of the constructs added to it, in the  *)
(* order of their creation.  Values that refer to a construct (a key, a    *)
(* queue, a bucket) carry its type and id.                                 *)

\* new Key(scope, `${id}Key`, {description, enableKeyRotation: true})
NewKey(id) ==
    [ type |-> "Key",
      id |-> id \o "Key",
      description |-> "Created by " \o id \o " resource",
      enableKeyRotation |-> TRUE ]

KeyRef(key) == [type |-> "Key", id |-> key.id]

\* A key that exists before the call and is passed in by the caller.
SuppliedKey == [type |-> "Key", id |-> "SuppliedKey"]

Principals(m) == IF IsDef(m) THEN m.v ELSE <<>>

-----------------------------------------------------------------------------
(* sqs: SQSQueue.                                                          *)

MAX_ALLOWED_QUEUE_NAME_LENGTH == 80
DEFAULT_RECEIVE_COUNT == 100
\* Duration.days(14)
MAX_RETENTION_PERIOD == [days |-> 14]

SQSQueueFields ==
    { "encryption", "encryptionMasterKey", "enableDeadLetterQueue",
      "requireSecureTransport", "deadLetterQueue", "queueName", "fifo",
      "dlqMaxReceiveCount", "retentionPeriod",
      "principalsAllowedToConsume", "principalsAllowedToSend" }

\* SQSQueue.createEncryptionMasterKey(scope, id)
createEncryptionMasterKey(id) == NewKey(id)

\* getQueueNameForFifoDlq that puts '-dlq' before the first '.fifo'.
getQueueNameForFifoDlq_FirstOccurrence(queueName) ==
    LET fifoSuffix == ".fifo"
    IN IF ~EndsWith(queueName, fifoSuffix)
       THEN [threw |-> TRUE]
       ELSE LET at == {i \in 0..(Len(queueName) - 5) :
                          SubSeq(queueName, i + 1, i + 5) = fifoSuffix}
                fifoSuffixIndex == CHOOSE i \in at : \A j \in at : i <= j
            IN [ threw |-> FALSE,
                 value |-> Substr(queueName, 0, fifoSuffixIndex) \o "-dlq"
                              \o Substring(queueName, fifoSuffixIndex) ]

\* SQSQueue.getQueueNameForFifoDlq(queueName): throws, or returns the name
\* with '-dlq' put before the last '.fifo'.
getQueueNameForFifoDlq(queueName) ==
    LET fifoSuffix == ".fifo"
    IN IF ~EndsWith(queueName, fifoSuffix)
       THEN [threw |-> TRUE]
       ELSE LET fifoSuffixIndex == LastIndexOf(queueName, fifoSuffix)
            IN [ threw |-> FALSE,
                 value |-> Substr(queueName, 0, fifoSuffixIndex) \o "-dlq"
                              \o Substring(queueName, fifoSuffixIndex) ]

\* The statement that denies every request not made over HTTPS.
SecureQueuePolicyStatement ==
    [ sid |-> "Enforce - HTTPS",
      effect |-> "Deny",
      actions |-> {"sqs:*"},
      principals |-> {"AnyPrincipal"},
      condition |-> [test |-> "Bool", key |-> "aws:SecureTransport", value |-> "false"] ]

QueueRef(queue) == [type |-> "Queue", id |-> queue.id, queueName |-> queue.props.queueName]

\* The encryption of the queue: KMS unless props.encryption is given.
ResolveQueueEncryption(pr) ==
    IF ~TruthyEnum(Get(pr, "encryption")) THEN Def("KMS") ELSE Get(pr, "encryption")

\* ShouldCreateQueueKey for every encryption mode.
ShouldCreateQueueKey_AnyMode(encryption, encryptionMasterKey) ==
    ~TruthyObj(encryptionMasterKey)

\* Whether the constructor creates the encryption master key.
ShouldCreateQueueKey(encryption, encryptionMasterKey) ==
    encryption = Def("KMS") /\ ~TruthyObj(encryptionMasterKey)

\* enableDeadLetterQueue, true when it is not given.
ResolveEnableDeadLetterQueue(pr) ==
    IF Get(pr, "enableDeadLetterQueue") = Undefined THEN Def(TRUE)
    ELSE Get(pr, "enableDeadLetterQueue")

\* ShouldCreateDlq without the test for a supplied queue.
ShouldCreateDlq_IgnoreSupplied(enableDeadLetterQueue, deadLetterQueue) ==
    TruthyBool(enableDeadLetterQueue)

\* Whether the constructor creates the dead-letter queue.
ShouldCreateDlq(enableDeadLetterQueue, deadLetterQueue) ==
    TruthyBool(enableDeadLetterQueue) /\ ~TruthyObj(deadLetterQueue)

\* QueueRequireSecureTransport with false as the default.
QueueRequireSecureTransport_DefaultFalse(pr) ==
    IF Get(pr, "requireSecureTransport") = Undefined THEN Def(FALSE)
    ELSE Get(pr, "requireSecureTransport")

\* requireSecureTransport, true when it is not given.
QueueRequireSecureTransport(pr) ==
    IF Get(pr, "requireSecureTransport") = Undefined THEN Def(TRUE)
    ELSE Get(pr, "requireSecureTransport")

\* DeriveDeadLetterQueueName that also drops a name of exactly the longest
\* length allowed.
DeriveDeadLetterQueueName_OffByOne(pr) ==
    LET derivedName ==
            IF TruthyBool(Get(pr, "fifo"))
            THEN getQueueNameForFifoDlq(Get(pr, "queueName").v).value
            ELSE Get(pr, "queueName").v \o "-dlq"
    IN IF Len(derivedName) >= MAX_ALLOWED_QUEUE_NAME_LENGTH
       THEN Undefined ELSE Def(derivedName)

\* The name derived for the dead-letter queue when it fits, else undefined.
\* Not evaluated for a fifo queue whose name lacks the suffix.
DeriveDeadLetterQueueName(pr) ==
    LET derivedName ==
            IF TruthyBool(Get(pr, "fifo"))
            THEN getQueueNameForFifoDlq(Get(pr, "queueName").v).value
            ELSE Get(pr, "queueName").v \o "-dlq"
    IN IF Len(derivedName) > MAX_ALLOWED_QUEUE_NAME_LENGTH
       THEN Undefined ELSE Def(derivedName)

\* new SQSQueue(scope, id, p): the outcome is whether the constructor threw
\* and the scope as the call left it; the queue is the last construct added.
RECURSIVE SQSQueue(_, _, _)
SQSQueue(scope, id, p) ==
    IF ~TruthyObj(p) THEN [threw |-> TRUE, scope |-> scope]
    ELSE
    LET pr == p.v
        encryption == ResolveQueueEncryption(pr)
        createKey == ShouldCreateQueueKey(encryption, Get(pr, "encryptionMasterKey"))
        scopeWithKey ==
            IF createKey THEN Append(scope, createEncryptionMasterKey(id)) ELSE scope
        encryptionMasterKey ==
            IF createKey THEN Def(KeyRef(createEncryptionMasterKey(id)))
            ELSE Get(pr, "encryptionMasterKey")
        enableDeadLetterQueue == ResolveEnableDeadLetterQueue(pr)
        suppliedDlq == Get(pr, "deadLetterQueue")
        fifo == Get(pr, "fifo")
        deriveName == TruthyStr(Get(pr, "queueName")) /\ ~TruthyObj(suppliedDlq)
        nameThrows ==
            /\ deriveName
            /\ TruthyBool(fifo)
            /\ getQueueNameForFifoDlq(Get(pr, "queueName").v).threw
        deadLetterQueueName ==
            IF deriveName THEN DeriveDeadLetterQueueName(pr)
            ELSE IF TruthyObj(suppliedDlq) THEN suppliedDlq.v.queue.queueName
            ELSE Undefined
        requireSecureTransport == QueueRequireSecureTransport(pr)
        createDlq == ShouldCreateDlq(enableDeadLetterQueue, suppliedDlq)
        dlqProps ==
            [f \in SQSQueueFields |->
                CASE f = "queueName" -> deadLetterQueueName
                  [] f = "encryption" -> encryption
                  [] f = "encryptionMasterKey" -> encryptionMasterKey
                  [] f = "requireSecureTransport" -> requireSecureTransport
                  [] f = "enableDeadLetterQueue" -> Def(FALSE)
                  [] f = "retentionPeriod" -> Def(MAX_RETENTION_PERIOD)
                  [] f = "principalsAllowedToConsume" -> Get(pr, "principalsAllowedToConsume")
                  [] f = "principalsAllowedToSend" -> Get(pr, "principalsAllowedToSend")
                  [] f = "fifo" -> fifo
                  [] OTHER -> Absent]
        dlq == SQSQueue(scopeWithKey, id \o "Dlq", Def(dlqProps))
        scopeWithDlq == IF createDlq THEN dlq.scope ELSE scopeWithKey
        deadLetterQueue ==
            IF createDlq
            THEN Def([ queue |-> QueueRef(dlq.scope[Len(dlq.scope)]),
                       maxReceiveCount |->
                           Coalesce(Get(pr, "dlqMaxReceiveCount"),
                                    Def(DEFAULT_RECEIVE_COUNT)).v ])
            ELSE suppliedDlq
        superProps ==
            Spread([ encryption |-> encryption,
                     encryptionMasterKey |-> encryptionMasterKey,
                     deadLetterQueue |-> deadLetterQueue,
                     retentionPeriod |->
                         Coalesce(Get(pr, "retentionPeriod"), Def(MAX_RETENTION_PERIOD)) ],
                   pr)
        consumers == Principals(Get(pr, "principalsAllowedToConsume"))
        senders == Principals(Get(pr, "principalsAllowedToSend"))
        queue ==
            [ type |-> "Queue",
              id |-> id,
              props |-> superProps,
              deadLetterQueue |-> deadLetterQueue,
              grants |->
                  [i \in 1..Len(consumers) |->
                      [grant |-> "ConsumeMessages", principal |-> consumers[i]]]
                  \o [i \in 1..Len(senders) |->
                      [grant |-> "SendMessages", principal |-> senders[i]]],
              policy |->
                  IF TruthyBool(requireSecureTransport)
                  THEN <<SecureQueuePolicyStatement>> ELSE <<>> ]
    IN IF nameThrows
       THEN [threw |-> TRUE, scope |-> scopeWithKey]
       ELSE IF createDlq /\ dlq.threw
       THEN [threw |-> TRUE, scope |-> dlq.scope]
       ELSE [threw |-> FALSE, scope |-> Append(scopeWithDlq, queue)]

-----------------------------------------------------------------------------
(* Inputs of SQSQueue.                                                     *)

\* How far queue and bucket names range around the longest name whose
\* derived companion name still fits.
NameSlack == 1

Booleans == {Undefined, Def(TRUE), Def(FALSE)}

QueueNames ==
    {"", "q", "q.fifo", "a.fifo.fifo"}
    \cup {Rep("a", n) :
            n \in (MAX_ALLOWED_QUEUE_NAME_LENGTH - 4 - NameSlack)
                  ..(MAX_ALLOWED_QUEUE_NAME_LENGTH - 4 + NameSlack)}
    \cup {Rep("a", n - 5) \o ".fifo" :
            n \in (MAX_ALLOWED_QUEUE_NAME_LENGTH - 4 - NameSlack)
                  ..(MAX_ALLOWED_QUEUE_NAME_LENGTH - 4 + NameSlack)}

\* A dead-letter queue that exists before the call.
SuppliedDeadLetterQueue ==
    [ queue |-> [type |-> "Queue", id |-> "SuppliedDlq", queueName |-> Def("supplied")],
      maxReceiveCount |-> 3 ]

SQSQueuePropsSet ==
    {Undefined} \cup
    { Def(pr) : pr \in
        [ encryption : {Absent, Undefined} \cup {Def(e) : e \in {"KMS", "KMS_MANAGED", "NONE"}},
          encryptionMasterKey : {Absent, Undefined, Def(SuppliedKey)},
          enableDeadLetterQueue : Booleans,
          requireSecureTransport : Booleans,
          deadLetterQueue : {Absent, Undefined, Def(SuppliedDeadLetterQueue)},
          queueName : {Undefined} \cup {Def(n) : n \in QueueNames},
          fifo : Booleans,
          dlqMaxReceiveCount : {Undefined, Def(0)},
          retentionPeriod : {Absent, Undefined, Def([days |-> 4])},
          principalsAllowedToConsume : {Undefined, Def(<<"consumer">>)},
          principalsAllowedToSend : {Undefined, Def(<<"sender">>)} ] }

\* Queue names given to getQueueNameForFifoDlq: up to MaxNameParts pieces,
\* each a letter, a dot, 'fifo', '.fifo' or '-dlq'.
MaxNameParts == 3

NameParts == {"a", ".", "fifo", ".fifo", "-dlq"}

RECURSIVE Concat(_)
Concat(parts) == IF parts = <<>> THEN "" ELSE Head(parts) \o Concat(Tail(parts))

FifoDlqNameInputs == {Concat(parts) : parts \in SeqsUpTo(NameParts, MaxNameParts)}

-----------------------------------------------------------------------------
(* s3: Bucket and AccessLogsBucket.                                        *)

MAX_ALLOWED_BUCKET_NAME_LENGTH == 63
NON_CURRENT_VERSION_EXPIRATION_DAYS == 90
LOGS_CURRENT_VERSION_EXPIRATION_DAYS == 3650
LOGS_CURRENT_VERSION_TRANSITION_DAYS == 365

BucketFields ==
    { "blockPublicAccess", "bucketName", "encryption", "encryptionKey",
      "enableAccessLogging", "enableDefaultLifecycleRules", "lifecycleRules",
      "objectOwnership", "requireSecureTransport", "serverAccessLogsBucket",
      "serverAccessLogsPrefix", "versioned" }

\* ResolveBucketEncryption with KMS_MANAGED as the default.
ResolveBucketEncryption_KmsManaged(pr) ==
    Coalesce(Get(pr, "encryption"), Def("KMS_MANAGED"))

\* The encryption of the bucket: KMS unless props.encryption is given.
ResolveBucketEncryption(pr) == Coalesce(Get(pr, "encryption"), Def("KMS"))

\* ShouldCreateBucketKey that tests for KMS_MANAGED.
ShouldCreateBucketKey_KmsManaged(encryption, encryptionKey) ==
    encryption = Def("KMS_MANAGED") /\ ~TruthyObj(encryptionKey)

\* Whether the constructor creates the encryption key.
ShouldCreateBucketKey(encryption, encryptionKey) ==
    encryption = Def("KMS") /\ ~TruthyObj(encryptionKey)

\* ShouldCreateAccessLogsBucket without the test for a supplied bucket.
ShouldCreateAccessLogsBucket_IgnoreSupplied(enableAccessLogging, serverAccessLogsBucket) ==
    TruthyBool(enableAccessLogging)

\* Whether the constructor creates the access-log bucket.
ShouldCreateAccessLogsBucket(enableAccessLogging, serverAccessLogsBucket) ==
    TruthyBool(enableAccessLogging) /\ ~TruthyObj(serverAccessLogsBucket)

\* AccessLogBucketName cut to the longest name allowed.
AccessLogBucketName_Truncated(pr) ==
    IF TruthyStr(Get(pr, "bucketName"))
    THEN Def(Substr(Get(pr, "bucketName").v \o "-logs", 0, MAX_ALLOWED_BUCKET_NAME_LENGTH))
    ELSE Undefined

\* The name of the access-log bucket: bucketName + '-logs' when the bucket is
\* named and the result fits, else undefined.
AccessLogBucketName(pr) ==
    IF TruthyStr(Get(pr, "bucketName"))
    THEN LET accessLogBucketName == Get(pr, "bucketName").v \o "-logs"
         IN IF Len(accessLogBucketName) > MAX_ALLOWED_BUCKET_NAME_LENGTH
            THEN Undefined ELSE Def(accessLogBucketName)
    ELSE Undefined

defaultLifecyclePolicy ==
    [ id |-> "NonCurrentVersionPolicyForCompliance",
      enabled |-> TRUE,
      noncurrentVersionExpiration |-> [days |-> NON_CURRENT_VERSION_EXPIRATION_DAYS] ]

\* requireSecureTransport, true when it is not given.
BucketRequireSecureTransport(pr) ==
    Coalesce(Get(pr, "requireSecureTransport"), Def(TRUE))

\* The statement that denies every request not made over HTTPS.
SecureBucketPolicyStatement ==
    [ effect |-> "Deny",
      actions |-> {"s3:*"},
      principals |-> {"AnyPrincipal"},
      resources |-> {"arnForObjects(*)"},
      condition |-> [test |-> "Bool", key |-> "aws:SecureTransport", value |-> "false"] ]

\* The statement that denies s3:PutObject without a KMS key id.
RequireKmsPolicyStatement ==
    [ effect |-> "Deny",
      actions |-> {"s3:PutObject"},
      principals |-> {"AnyPrincipal"},
      resources |-> {"arnForObjects(*)"},
      condition |-> [ test |-> "Null",
                      key |-> "s3:x-amz-server-side-encryption-aws-kms-key-id",
                      value |-> "true" ] ]

\* RequiresKmsKeyId that also holds for KMS_MANAGED.
RequiresKmsKeyId_AnyKms(updatedProps) ==
    updatedProps.encryption \in {Def("KMS"), Def("KMS_MANAGED")}

\* Whether the constructor adds the statement that requires a KMS key id.
RequiresKmsKeyId(updatedProps) == updatedProps.encryption = Def("KMS")

BucketRef(bucket) == [type |-> "Bucket", id |-> bucket.id]

\* AccessLogsBucketProps with the encryption and the key of the caller.
AccessLogsBucketProps_CallerEncryption(pr) ==
    [f \in BucketFields |->
        CASE f = "blockPublicAccess" -> Def("BLOCK_ALL")
          [] f = "bucketName" -> Get(pr, "bucketName")
          [] f = "encryption" -> Coalesce(Get(pr, "encryption"), Def("S3_MANAGED"))
          [] f = "encryptionKey" -> Get(pr, "encryptionKey")
          [] f = "enableAccessLogging" -> Def(FALSE)
          [] f = "serverAccessLogsPrefix" -> Def("logs/")
          [] f = "lifecycleRules" -> Get(pr, "lifecycleRules")
          [] f = "requireSecureTransport" ->
                Coalesce(Get(pr, "requireSecureTransport"), Def(TRUE))
          [] f = "versioned" -> Def(TRUE)
          [] f = "objectOwnership" -> Def("BUCKET_OWNER_PREFERRED")
          [] OTHER -> Absent]

\* The props that AccessLogsBucket passes to the Bucket constructor.
AccessLogsBucketProps(pr) ==
    [f \in BucketFields |->
        CASE f = "blockPublicAccess" -> Def("BLOCK_ALL")
          [] f = "bucketName" -> Get(pr, "bucketName")
          [] f = "encryption" -> Def("S3_MANAGED")
          [] f = "enableAccessLogging" -> Def(FALSE)
          [] f = "serverAccessLogsPrefix" -> Def("logs/")
          [] f = "lifecycleRules" ->
                Def(<< [ id |-> "CurrentVersionPolicyForLogs",
                         enabled |-> TRUE,
                         expiration |-> [days |-> LOGS_CURRENT_VERSION_EXPIRATION_DAYS],
                         transitions |->
                            << [ storageClass |-> "GLACIER",
                                 transitionAfter |->
                                    [days |-> LOGS_CURRENT_VERSION_TRANSITION_DAYS] ] >> ] >>)
          [] f = "requireSecureTransport" ->
                Coalesce(Get(pr, "requireSecureTransport"), Def(TRUE))
          [] f = "versioned" -> Def(TRUE)
          [] f = "objectOwnership" -> Def("BUCKET_OWNER_PREFERRED")
          [] OTHER -> Absent]

\* new Bucket(scope, id, p) for class cls, Bucket or its subclass
\* AccessLogsBucket, whose constructor ends in this one: the outcome is
\* whether the constructor threw and the scope as the call left it; the
\* bucket is the last construct added.
RECURSIVE Bucket(_, _, _, _), AccessLogsBucket(_, _, _)
Bucket(scope, id, p, cls) ==
    IF ~TruthyObj(p) THEN [threw |-> TRUE, scope |-> scope]
    ELSE
    LET pr == p.v
        encryption == ResolveBucketEncryption(pr)
        createKey == ShouldCreateBucketKey(encryption, Get(pr, "encryptionKey"))
        scopeWithKey == IF createKey THEN Append(scope, NewKey(id)) ELSE scope
        encryptionKey ==
            IF createKey THEN Def(KeyRef(NewKey(id))) ELSE Get(pr, "encryptionKey")
        enableAccessLogging == Coalesce(Get(pr, "enableAccessLogging"), Def(TRUE))
        createLogs ==
            ShouldCreateAccessLogsBucket(enableAccessLogging, Get(pr, "serverAccessLogsBucket"))
        \* new AccessLogsBucket(scope, `${id}AccessLog`, {bucketName, requireSecureTransport})
        logsArg ==
            [f \in BucketFields |->
                CASE f = "bucketName" -> AccessLogBucketName(pr)
                  [] f = "requireSecureTransport" -> Get(pr, "requireSecureTransport")
                  [] OTHER -> Absent]
        logs == AccessLogsBucket(scopeWithKey, id \o "AccessLog", Def(logsArg))
        scopeWithLogs == IF createLogs THEN logs.scope ELSE scopeWithKey
        serverAccessLogsBucket ==
            IF createLogs THEN Def(BucketRef(logs.scope[Len(logs.scope)]))
            ELSE Get(pr, "serverAccessLogsBucket")
        versioned == Coalesce(Get(pr, "versioned"), Def(TRUE))
        enableDefaultLifecycleRules ==
            Coalesce(Get(pr, "enableDefaultLifecycleRules"), Def(TRUE))
        lifecycleRules ==
            IF /\ TruthyBool(enableDefaultLifecycleRules)
               /\ TruthyBool(versioned)
               /\ ~TruthyObj(Get(pr, "lifecycleRules"))
            THEN Def(<<defaultLifecyclePolicy>>)
            ELSE Get(pr, "lifecycleRules")
        blockPublicAccess == Coalesce(Get(pr, "blockPublicAccess"), Def("BLOCK_ALL"))
        updatedProps ==
            Spread([ blockPublicAccess |-> blockPublicAccess,
                     encryption |-> encryption,
                     encryptionKey |-> encryptionKey,
                     enableAccessLogging |-> enableAccessLogging,
                     lifecycleRules |-> lifecycleRules,
                     serverAccessLogsBucket |-> serverAccessLogsBucket,
                     versioned |-> versioned ],
                   pr)
        requireSecureTransport == BucketRequireSecureTransport(pr)
        bucket ==
            [ type |-> "Bucket",
              class |-> cls,
              id |-> id,
              props |-> updatedProps,
              serverAccessLogsBucket |-> serverAccessLogsBucket,
              policy |->
                  (IF TruthyBool(requireSecureTransport)
                   THEN <<SecureBucketPolicyStatement>> ELSE <<>>)
                  \o (IF RequiresKmsKeyId(updatedProps)
                      THEN <<RequireKmsPolicyStatement>> ELSE <<>>) ]
    IN IF createLogs /\ logs.threw
       THEN [threw |-> TRUE, scope |-> logs.scope]
       ELSE [threw |-> FALSE, scope |-> Append(scopeWithLogs, bucket)]

\* new AccessLogsBucket(scope, id, p): the Bucket constructor on the props
\* that AccessLogsBucket fixes.  Reading props.bucketName of props that are
\* undefined throws before anything is created.
AccessLogsBucket(scope, id, p) ==
    IF ~TruthyObj(p) THEN [threw |-> TRUE, scope |-> scope]
    ELSE Bucket(scope, id, Def(AccessLogsBucketProps(p.v)), "AccessLogsBucket")

-----------------------------------------------------------------------------
(* Inputs of Bucket.                                                       *)

BucketNames ==
    {"", "b"}
    \cup {Rep("a", n) :
            n \in (MAX_ALLOWED_BUCKET_NAME_LENGTH - 5 - NameSlack)
                  ..(MAX_ALLOWED_BUCKET_NAME_LENGTH - 5 + NameSlack)}

\* A bucket that exists before the call.
SuppliedLogsBucket == [type |-> "Bucket", id |-> "SuppliedLogsBucket"]

SuppliedLifecycleRules == << [id |-> "SuppliedRule", enabled |-> TRUE] >>

BucketPropsSet ==
    {Undefined} \cup
    { Def(pr) : pr \in
        [ blockPublicAccess : {Absent, Def("BLOCK_ACLS")},
          bucketName : {Undefined} \cup {Def(n) : n \in BucketNames},
          encryption : {Absent, Undefined}
                          \cup {Def(e) : e \in {"KMS", "KMS_MANAGED", "S3_MANAGED"}},
          encryptionKey : {Absent, Undefined, Def(SuppliedKey)},
          enableAccessLogging : {Absent} \cup Booleans,
          enableDefaultLifecycleRules : Booleans,
          lifecycleRules : {Absent, Undefined, Def(SuppliedLifecycleRules)},
          objectOwnership : {Absent},
          requireSecureTransport : Booleans,
          serverAccessLogsBucket : {Absent, Undefined, Def(SuppliedLogsBucket)},
          serverAccessLogsPrefix : {Absent},
          versioned : {Absent} \cup Booleans ] }

\* Props given to an AccessLogsBucket that is constructed on its own: any
\* BucketProps, here with the fields a caller could try to override.
AccessLogsBucketPropsSet ==
    {Undefined} \cup
    { Def(pr) : pr \in
        [ blockPublicAccess : {Absent, Def("BLOCK_ACLS")},
          bucketName : {Undefined, Def("logs")},
          encryption : {Absent, Undefined}
                          \cup {Def(e) : e \in {"KMS", "KMS_MANAGED", "S3_MANAGED"}},
          encryptionKey : {Absent, Def(SuppliedKey)},
          enableAccessLogging : {Absent, Def(TRUE)},
          enableDefaultLifecycleRules : {Absent},
          lifecycleRules : {Absent, Def(SuppliedLifecycleRules)},
          objectOwnership : {Absent},
          requireSecureTransport : Booleans,
          serverAccessLogsBucket : {Absent, Def(SuppliedLogsBucket)},
          serverAccessLogsPrefix : {Absent},
          versioned : {Absent, Def(FALSE)} ] }

-----------------------------------------------------------------------------
(* sns: SnsTopic.                                                          *)

ALL_SNS_ACTIONS ==
    { "sns:GetTopicAttributes", "sns:SetTopicAttributes", "sns:AddPermission",
      "sns:RemovePermission", "sns:DeleteTopic", "sns:Subscribe",
      "sns:ListSubscriptionsByTopic", "sns:Publish", "sns:Receive",
      "sns:TagResource", "sns:UntagResource", "sns:ListTagsForResource" }

\* enableEncryption, true when it is not given.
ResolveEnableEncryption(pr) ==
    IF Get(pr, "enableEncryption") = Undefined THEN Def(TRUE)
    ELSE Get(pr, "enableEncryption")

\* Whether the constructor creates the master key.
ShouldCreateTopicKey(enableEncryption, masterKey) ==
    TruthyBool(enableEncryption) /\ ~TruthyObj(masterKey)

\* requireSecureTransport, true when it is not given.
TopicRequireSecureTransport(pr) ==
    IF Get(pr, "requireSecureTransport") = Undefined THEN Def(TRUE)
    ELSE Get(pr, "requireSecureTransport")

\* The statement that denies every request not made over HTTPS.
SecureTopicPolicyStatement ==
    [ sid |-> "Enforce - HTTPS",
      effect |-> "Deny",
      actions |-> ALL_SNS_ACTIONS,
      principals |-> {"AnyPrincipal"},
      resources |-> {"topicArn"},
      condition |-> [test |-> "Bool", key |-> "aws:SecureTransport", value |-> "false"] ]

\* The grants made for one principal allowed to publish, in order.
PublishGrants(masterKey, principal) ==
    (IF IsDef(masterKey)
     THEN << [on |-> masterKey.v, grant |-> "Encrypt", principal |-> principal],
             [on |-> masterKey.v, grant |-> "Decrypt", principal |-> principal] >>
     ELSE <<>>)
    \o << [on |-> "topic", grant |-> "sns:Publish", principal |-> principal] >>

\* SubscribeGrants that also grants encrypt on the master key.
SubscribeGrants_WithEncrypt(masterKey, principal) ==
    (IF IsDef(masterKey)
     THEN << [on |-> masterKey.v, grant |-> "Encrypt", principal |-> principal],
             [on |-> masterKey.v, grant |-> "Decrypt", principal |-> principal] >>
     ELSE <<>>)
    \o << [on |-> "topic", grant |-> "sns:Subscribe", principal |-> principal] >>

\* The grants made for one principal allowed to subscribe, in order.
SubscribeGrants(masterKey, principal) ==
    (IF IsDef(masterKey)
     THEN << [on |-> masterKey.v, grant |-> "Decrypt", principal |-> principal] >>
     ELSE <<>>)
    \o << [on |-> "topic", grant |-> "sns:Subscribe", principal |-> principal] >>

RECURSIVE Flatten(_)
Flatten(lists) == IF lists = <<>> THEN <<>> ELSE Head(lists) \o Flatten(Tail(lists))

\* new SnsTopic(scope, id, p)
SnsTopic(scope, id, p) ==
    IF ~TruthyObj(p) THEN [threw |-> TRUE, scope |-> scope]
    ELSE
    LET pr == p.v
        enableEncryption == ResolveEnableEncryption(pr)
        createKey == ShouldCreateTopicKey(enableEncryption, Get(pr, "masterKey"))
        scopeWithKey == IF createKey THEN Append(scope, NewKey(id)) ELSE scope
        masterKey == IF createKey THEN Def(KeyRef(NewKey(id))) ELSE Get(pr, "masterKey")
        superProps == Spread([masterKey |-> masterKey], pr)
        publishers == Principals(Get(pr, "principalsAllowedToPublish"))
        subscribers == Principals(Get(pr, "principalsAllowedToSubscribe"))
        requireSecureTransport == TopicRequireSecureTransport(pr)
        topic ==
            [ type |-> "Topic",
              id |-> id,
              props |-> superProps,
              masterKey |-> masterKey,
              grants |->
                  Flatten([i \in 1..Len(publishers) |->
                              PublishGrants(masterKey, publishers[i])])
                  \o Flatten([i \in 1..Len(subscribers) |->
                              SubscribeGrants(masterKey, subscribers[i])]),
              policy |->
                  IF TruthyBool(requireSecureTransport)
                  THEN <<SecureTopicPolicyStatement>> ELSE <<>> ]
    IN [threw |-> FALSE, scope |-> Append(scopeWithKey, topic)]

SnsTopicPropsSet ==
    {Undefined} \cup
    { Def(pr) : pr \in
        [ masterKey : {Absent, Undefined, Def(SuppliedKey)},
          enableEncryption : Booleans,
          requireSecureTransport : Booleans,
          principalsAllowedToPublish :
              {Undefined, Def(<<>>), Def(<<"publisher">>), Def(<<"publisher", "both">>)},
          principalsAllowedToSubscribe :
              {Undefined, Def(<<"subscriber">>), Def(<<"subscriber", "both">>)} ] }

-----------------------------------------------------------------------------
(* dynamodb: DynamoDBTable.                                                *)

\* targetUtilizationPercent, and scaleInCooldown and scaleOutCooldown in seconds
DEFAULT_UTILIZATION_SCALING_PROPS ==
    [ targetUtilizationPercent |-> 60,
      scaleInCooldown |-> [seconds |-> 60],
      scaleOutCooldown |-> [seconds |-> 60] ]

DynamoDBTableFields ==
    { "billingMode", "readCapacity", "writeCapacity", "pointInTimeRecovery",
      "deletionProtection", "encryption", "readScalingProps", "writeScalingProps" }

\* The billing mode of the table: PAY_PER_REQUEST unless one is given.
ResolveBillingMode(pr) ==
    IF ~TruthyEnum(Get(pr, "billingMode")) THEN Def("PAY_PER_REQUEST")
    ELSE Get(pr, "billingMode")

\* Whether a provisioned table lacks scaling props.
MissingScalingProps(pr) ==
    ~TruthyObj(Get(pr, "readScalingProps")) \/ ~TruthyObj(Get(pr, "writeScalingProps"))

\* DefaultCapacity with the maximum of the scaling props.
DefaultCapacity_Max(capacity, scalingProps) ==
    IF ~TruthyNum(capacity) THEN Def(scalingProps.v.maxCapacity) ELSE capacity

\* A capacity of a provisioned table: the minimum of its scaling props when
\* it is not given.
DefaultCapacity(capacity, scalingProps) ==
    IF ~TruthyNum(capacity) THEN Def(scalingProps.v.minCapacity) ELSE capacity

\* ResolveFlag with false as the default.
ResolveFlag_DefaultFalse(flag) == IF flag = Undefined THEN Def(FALSE) ELSE flag

\* pointInTimeRecovery and deletionProtection: true when not given.
ResolveFlag(flag) == IF flag = Undefined THEN Def(TRUE) ELSE flag

\* The encryption of the table: CUSTOMER_MANAGED unless one is given.
ResolveTableEncryption(pr) ==
    IF ~TruthyEnum(Get(pr, "encryption")) THEN Def("CUSTOMER_MANAGED")
    ELSE Get(pr, "encryption")

\* autoScaleReadCapacity / autoScaleWriteCapacity(scalingProps)
\*     .scaleOnUtilization(DEFAULT_UTILIZATION_SCALING_PROPS)
AutoScale(dimension, scalingProps) ==
    [ dimension |-> dimension,
      scalingProps |-> scalingProps,
      scaleOnUtilization |-> DEFAULT_UTILIZATION_SCALING_PROPS ]

\* new DynamoDBTable(scope, id, p)
DynamoDBTable(scope, id, p) ==
    IF ~TruthyObj(p) THEN [threw |-> TRUE, scope |-> scope]
    ELSE
    LET pr == p.v
        billingMode == ResolveBillingMode(pr)
        provisioned == Get(pr, "billingMode") = Def("PROVISIONED")
        readCapacity ==
            IF provisioned
            THEN DefaultCapacity(Get(pr, "readCapacity"), Get(pr, "readScalingProps"))
            ELSE Get(pr, "readCapacity")
        writeCapacity ==
            IF provisioned
            THEN DefaultCapacity(Get(pr, "writeCapacity"), Get(pr, "writeScalingProps"))
            ELSE Get(pr, "writeCapacity")
        updatedProps ==
            Spread([ billingMode |-> billingMode,
                     encryption |-> ResolveTableEncryption(pr),
                     pointInTimeRecovery |-> ResolveFlag(Get(pr, "pointInTimeRecovery")),
                     deletionProtection |-> ResolveFlag(Get(pr, "deletionProtection")),
                     readCapacity |-> readCapacity,
                     writeCapacity |-> writeCapacity ],
                   pr)
        usesProvisionedBillingMode == updatedProps.billingMode = Def("PROVISIONED")
        table ==
            [ type |-> "Table",
              id |-> id,
              props |-> updatedProps,
              usesProvisionedBillingMode |-> usesProvisionedBillingMode,
              autoScaling |->
                  IF usesProvisionedBillingMode
                  THEN << AutoScale("read", updatedProps.readScalingProps),
                          AutoScale("write", updatedProps.writeScalingProps) >>
                  ELSE <<>>,
              globalSecondaryIndexes |-> <<>>,
              indexAutoScaling |-> <<>> ]
    IN IF provisioned /\ MissingScalingProps(pr)
       THEN [threw |-> TRUE, scope |-> scope]
       ELSE [threw |-> FALSE, scope |-> Append(scope, table)]

\* autoScaleGlobalSecondaryIndexReadCapacity / ...WriteCapacity(indexName,
\*     scalingProps).scaleOnUtilization(DEFAULT_UTILIZATION_SCALING_PROPS)
AutoScaleGlobalSecondaryIndex(indexName, dimension, scalingProps) ==
    [ indexName |-> indexName,
      dimension |-> dimension,
      scalingProps |-> scalingProps,
      scaleOnUtilization |-> DEFAULT_UTILIZATION_SCALING_PROPS ]

\* table.addGlobalSecondaryIndex(p): whether the call threw, and the table as
\* the call left it.
addGlobalSecondaryIndex(table, p) ==
    IF table.usesProvisionedBillingMode /\ MissingScalingProps(p)
    THEN [threw |-> TRUE, table |-> table]
    ELSE
    LET readCapacity ==
            IF table.usesProvisionedBillingMode
            THEN DefaultCapacity(Get(p, "readCapacity"), Get(p, "readScalingProps"))
            ELSE Get(p, "readCapacity")
        writeCapacity ==
            IF table.usesProvisionedBillingMode
            THEN DefaultCapacity(Get(p, "writeCapacity"), Get(p, "writeScalingProps"))
            ELSE Get(p, "writeCapacity")
        updatedProps ==
            Spread([readCapacity |-> readCapacity, writeCapacity |-> writeCapacity], p)
    IN [ threw |-> FALSE,
         table |->
            [ table EXCEPT
                !.globalSecondaryIndexes = Append(@, updatedProps),
                !.indexAutoScaling =
                    IF table.usesProvisionedBillingMode
                    THEN @ \o << AutoScaleGlobalSecondaryIndex(
                                    updatedProps.indexName.v, "read",
                                    updatedProps.readScalingProps),
                                 AutoScaleGlobalSecondaryIndex(
                                    updatedProps.indexName.v, "write",
                                    updatedProps.writeScalingProps) >>
                    ELSE @ ] ]

ScalingProps == {Undefined, Def([minCapacity |-> 5, maxCapacity |-> 10])}

DynamoDBTablePropsSet ==
    {Undefined} \cup
    { Def(pr) : pr \in
        [ billingMode : {Absent, Undefined, Def("PROVISIONED"), Def("PAY_PER_REQUEST")},
          readCapacity : {Absent, Undefined, Def(0), Def(7)},
          writeCapacity : {Absent, Undefined, Def(7)},
          pointInTimeRecovery : {Absent} \cup Booleans,
          deletionProtection : {Absent} \cup Booleans,
          encryption : {Absent, Undefined, Def("AWS_MANAGED"), Def("CUSTOMER_MANAGED")},
          readScalingProps : ScalingProps,
          writeScalingProps :
              {Undefined, Def([minCapacity |-> 3, maxCapacity |-> 10])} ] }

\* Most global secondary indexes added to one table.
MaxIndexes == 2

\* The tables that indexes are added to: provisioned, on demand by default,
\* on demand as asked, and with billingMode present and undefined.
TablesForIndexes ==
    { Def([ f \in DynamoDBTableFields |->
              CASE f = "billingMode" -> b
                [] f = "readScalingProps" ->
                      Def([minCapacity |-> 5, maxCapacity |-> 10])
                [] f = "writeScalingProps" ->
                      Def([minCapacity |-> 3, maxCapacity |-> 10])
                [] OTHER -> Absent ]) :
        b \in {Absent, Undefined, Def("PROVISIONED"), Def("PAY_PER_REQUEST")} }

\* The props of the call that adds the n-th index; index names differ.
GlobalSecondaryIndexPropsSet(n) ==
    [ indexName : {Def("Index" \o Rep("I", n))},
      readCapacity : {Absent, Undefined, Def(0), Def(7)},
      writeCapacity : {Absent, Def(7)},
      readScalingProps : ScalingProps,
      writeScalingProps : {Undefined, Def([minCapacity |-> 3, maxCapacity |-> 10])} ]

-----------------------------------------------------------------------------
(* ecs/fargate: the data protection policy of the container logs.          *)

\* a || d for a number, a string and an object.
OrNum(m, d) == IF TruthyNum(m) THEN m ELSE Def(d)
OrStr(m, d) == IF TruthyStr(m) THEN m ELSE Def(d)
OrObj(m, d) == IF TruthyObj(m) THEN m ELSE Def(d)

\* Number.prototype.toString() of a natural number.
Digits == <<"0", "1", "2", "3", "4", "5", "6", "7", "8", "9">>

RECURSIVE NumberToString(_)
NumberToString(n) ==
    IF n < 10 THEN Digits[n + 1]
    ELSE NumberToString(n \div 10) \o Digits[(n % 10) + 1]

\* createEncryptionKeyForAuditLogGroup(scope)
createEncryptionKeyForAuditLogGroup ==
    [ type |-> "Key",
      id |-> "CwDataProtectionKmsKey",
      description |-> "KMS Key for encrypting CW data protection audit log group",
      enableKeyRotation |-> TRUE,
      policy |->
        << [ effect |-> "Allow",
             actions |-> { "kms:Decrypt*", "kms:DescribeKey*", "kms:Encrypt*",
                           "kms:GenerateDataKey*", "kms:ReEncrypt*" },
             principals |-> {"logs.amazonaws.com"},
             resources |-> {"*"},
             condition |-> [ test |-> "ArnLike",
                             key |-> "kms:EncryptionContext:aws:logs:arn",
                             value |-> "arn:logs:*" ] ] >> ]

\* createDataProtectionAuditLogGroup(scope, encryptionKey): the constructs it
\* adds to the scope, the log group last.
createDataProtectionAuditLogGroup(encryptionKey) ==
    LET created == IF TruthyObj(encryptionKey) THEN <<>>
                   ELSE <<createEncryptionKeyForAuditLogGroup>>
        key == IF TruthyObj(encryptionKey) THEN encryptionKey.v
               ELSE KeyRef(createEncryptionKeyForAuditLogGroup)
    IN Append(created,
              [ type |-> "LogGroup",
                id |-> "AuditLogGroup",
                retention |-> "TEN_YEARS",
                encryptionKey |-> key,
                logGroupName |-> "AuditLogGroup.logGroupName" ])

\* getServiceContainerForFargateService(taskDefinition)
getServiceContainerForFargateService(taskDefinition) == taskDefinition.defaultContainer

\* getLogGroupForFargateService(container): throws when the container has no
\* child with id 'LogGroup', else returns that log group.
getLogGroupForFargateService(container) ==
    IF ~container.hasLogGroup THEN [threw |-> TRUE]
    ELSE [threw |-> FALSE, value |-> [type |-> "LogGroup", of |-> container.id]]

\* UseAuditLogGroupDefault that only looks at whether the props are given.
UseAuditLogGroupDefault_OnlyWithoutProps(dataProtectionPolicyProps) ==
    ~IsDef(dataProtectionPolicyProps)

\* !dataProtectionPolicyProps?.auditLogGroupName
UseAuditLogGroupDefault(dataProtectionPolicyProps) ==
    IF IsDef(dataProtectionPolicyProps)
    THEN ~TruthyStr(dataProtectionPolicyProps.v.auditLogGroupName)
    ELSE TRUE

\* { ...dataProtectionPolicyProps, auditLogGroupName }
OverrideAuditLogGroupName(dataProtectionPolicyProps, auditLogGroupName) ==
    [ auditLogGroupName |-> Def(auditLogGroupName),
      addToDefaultDataIdentifiers |->
          IF IsDef(dataProtectionPolicyProps)
          THEN dataProtectionPolicyProps.v.addToDefaultDataIdentifiers ELSE Undefined,
      excludeFromDefaultDataIdentifiers |->
          IF IsDef(dataProtectionPolicyProps)
          THEN dataProtectionPolicyProps.v.excludeFromDefaultDataIdentifiers
          ELSE Undefined ]

\* What the call leaves behind when it does nothing.
NoDataProtection ==
    [threw |-> FALSE, created |-> <<>>, dependencies |-> <<>>, attached |-> <<>>]

\* addDataProtectionPolicyToFargateContainerLogs(scope, service,
\* taskDefinition, dataProtectionPolicyProps): whether it threw, the
\* constructs it added to the scope, the dependencies it added to the service
\* and the DataProtectionPolicy overrides it set, each on the log group of a
\* container.
addDataProtectionPolicyToFargateContainerLogs(taskDefinition, dataProtectionPolicyProps) ==
    LET serviceContainer == getServiceContainerForFargateService(taskDefinition)
    IN IF ~TruthyObj(serviceContainer) THEN NoDataProtection
       ELSE IF getLogGroupForFargateService(serviceContainer.v).threw THEN NoDataProtection
       ELSE
       LET serviceLogGroup == getLogGroupForFargateService(serviceContainer.v).value
           useDefault == UseAuditLogGroupDefault(dataProtectionPolicyProps)
           created ==
               IF useDefault THEN createDataProtectionAuditLogGroup(Undefined) ELSE <<>>
           override ==
               IF useDefault
               THEN OverrideAuditLogGroupName(dataProtectionPolicyProps,
                                              created[Len(created)].logGroupName)
               ELSE dataProtectionPolicyProps.v
           dependencies ==
               IF useDefault THEN << [type |-> "LogGroup", id |-> "AuditLogGroup"] >>
               ELSE <<>>
           policy == cloudwatchDataProtectionPolicy(override)
       IN IF policy.threw
          THEN [ threw |-> TRUE, created |-> created,
                 dependencies |-> dependencies, attached |-> <<>> ]
          ELSE [ threw |-> FALSE, created |-> created,
                 dependencies |-> dependencies,
                 attached |-> << [ logGroup |-> serviceLogGroup,
                                   DataProtectionPolicy |-> policy.policy ] >> ]

-----------------------------------------------------------------------------
(* ecs/fargate: AlbFargateService and NlbFargateService.                   *)

DEFAULT_TASK_COUNT == 1
DEFAULT_PLATFORM_VERSION == "LATEST"
DEFAULT_MIN_HEALTHY_PERCENT == 100
DEFAULT_MAX_HEALTHY_PERCENT == 200
\* Duration.seconds(60)
DEFAULT_HEALTH_CHECK_GRACE_PERIOD == [seconds |-> 60]
DEFAULT_DEREGISTRATION_DELAY == [seconds |-> 60]
DEFAULT_CONTAINER_PORT == 8080
DEFAULT_PUBLIC_ACCESS == FALSE
DEFAULT_CIRCUIT_BREAKER_ENABLED == TRUE
\* DEFAULT_CIRCUIT_BREAKER of alb-fargate-service and of nlb-fargate-service
ALB_DEFAULT_CIRCUIT_BREAKER == [rollback |-> TRUE]
NLB_DEFAULT_CIRCUIT_BREAKER == [rollback |-> FALSE]
JLB_RELAY_PORT == 9001

\* The vpc of the cluster and its CIDR block.
VpcCidrBlock == "vpcCidrBlock"

\* The values forwarded to the service: each || its default.
DesiredCount(pr) == OrNum(Get(pr, "desiredCount"), DEFAULT_TASK_COUNT)
MinHealthyPercent(pr) == OrNum(Get(pr, "minHealthyPercent"), DEFAULT_MIN_HEALTHY_PERCENT)
MaxHealthyPercent(pr) == OrNum(Get(pr, "maxHealthyPercent"), DEFAULT_MAX_HEALTHY_PERCENT)
HealthCheckGracePeriod(pr) ==
    OrObj(Get(pr, "healthCheckGracePeriod"), DEFAULT_HEALTH_CHECK_GRACE_PERIOD)
PlatformVersion(pr) == OrStr(Get(pr, "platformVersion"), DEFAULT_PLATFORM_VERSION)

\* new AlbFargateService(scope, id, props), props given: the construct is
\* added to the scope first; children are the constructs created under it.
AlbFargateService(scope, id, pr) ==
    LET serviceSecurityGroup ==
            [ type |-> "SecurityGroup", id |-> "ServiceSecurityGroup",
              vpc |-> pr.ecsCluster.vpc, allowAllOutbound |-> TRUE ]
        serviceProps ==
            [ cluster |-> Def(pr.ecsCluster),
              taskDefinition |-> Def(pr.taskDefinition),
              desiredCount |-> DesiredCount(pr),
              platformVersion |-> PlatformVersion(pr),
              minHealthyPercent |-> MinHealthyPercent(pr),
              maxHealthyPercent |-> MaxHealthyPercent(pr),
              healthCheckGracePeriod |-> HealthCheckGracePeriod(pr),
              circuitBreaker |-> Def(ALB_DEFAULT_CIRCUIT_BREAKER),
              securityGroups |-> Def(<<"ServiceSecurityGroup">>),
              serviceName |->
                  IF TruthyStr(Get(pr, "serviceName")) THEN Get(pr, "serviceName")
                  ELSE Absent ]
        fargateService == [type |-> "FargateService", id |-> "FargateService"]
        dataProtection ==
            addDataProtectionPolicyToFargateContainerLogs(
                pr.taskDefinition, Get(pr, "dataProtectionPolicyProps"))
        defaultContainer == pr.taskDefinition.defaultContainer
        containerPort ==
            IF IsDef(defaultContainer)
            THEN Coalesce(defaultContainer.v.containerPort, Def(DEFAULT_CONTAINER_PORT)).v
            ELSE DEFAULT_CONTAINER_PORT
        built ==
            [ type |-> "AlbFargateService",
              id |-> id,
              children |-> <<serviceSecurityGroup, fargateService>>
                              \o dataProtection.created,
              props |-> serviceProps,
              dependencies |-> dataProtection.dependencies,
              logGroupPolicies |-> dataProtection.attached,
              ingress |->
                  IF dataProtection.threw THEN <<>>
                  ELSE << [ peer |-> pr.loadBalancer.securityGroup,
                            port |-> containerPort ] >>,
              targets |->
                  IF dataProtection.threw THEN <<>> ELSE <<"FargateService">> ]
    IN [threw |-> dataProtection.threw, scope |-> Append(scope, built)]

\* NlbCircuitBreaker without the test of circuitBreakerEnabled.
NlbCircuitBreaker_IgnoreEnabled(pr) ==
    OrObj(Get(pr, "circuitBreaker"), NLB_DEFAULT_CIRCUIT_BREAKER)

\* The circuit breaker of the service of an NlbFargateService.
NlbCircuitBreaker(pr) ==
    LET circuitBreakerEnabled ==
            IF Get(pr, "circuitBreakerEnabled") = Undefined
            THEN Def(DEFAULT_CIRCUIT_BREAKER_ENABLED)
            ELSE Get(pr, "circuitBreakerEnabled")
    IN IF TruthyBool(circuitBreakerEnabled)
       THEN OrObj(Get(pr, "circuitBreaker"), NLB_DEFAULT_CIRCUIT_BREAKER)
       ELSE Undefined

\* DeregistrationDelaySeconds that takes a delay of 0 seconds as not given.
DeregistrationDelaySeconds_ZeroIsOmitted(pr) ==
    LET supplied ==
            IF TruthyObj(Get(pr, "deregistrationDelay"))
            THEN Def(Get(pr, "deregistrationDelay").v.seconds)
            ELSE Undefined
    IN NumberToString(OrNum(supplied, DEFAULT_DEREGISTRATION_DELAY.seconds).v)

\* The deregistration_delay.timeout_seconds attribute of the target group.
DeregistrationDelaySeconds(pr) ==
    LET supplied ==
            IF TruthyObj(Get(pr, "deregistrationDelay"))
            THEN Def(NumberToString(Get(pr, "deregistrationDelay").v.seconds))
            ELSE Undefined
    IN OrStr(supplied, NumberToString(DEFAULT_DEREGISTRATION_DELAY.seconds)).v

\* new NlbFargateService(scope, id, props), props given.
NlbFargateService(scope, id, pr) ==
    LET serviceProps ==
            [ cluster |-> Def(pr.ecsCluster),
              taskDefinition |-> Def(pr.taskDefinition),
              publicLoadBalancer |->
                  IF TruthyBool(Get(pr, "publicAccessEnabled"))
                  THEN Get(pr, "publicAccessEnabled") ELSE Def(DEFAULT_PUBLIC_ACCESS),
              desiredCount |-> DesiredCount(pr),
              platformVersion |-> PlatformVersion(pr),
              minHealthyPercent |-> MinHealthyPercent(pr),
              maxHealthyPercent |-> MaxHealthyPercent(pr),
              healthCheckGracePeriod |-> HealthCheckGracePeriod(pr),
              circuitBreaker |-> NlbCircuitBreaker(pr) ]
        nlbFargateService ==
            [type |-> "NetworkLoadBalancedFargateService", id |-> "FargateService"]
        dataProtection ==
            addDataProtectionPolicyToFargateContainerLogs(
                pr.taskDefinition, Get(pr, "dataProtectionPolicyProps"))
        bucket ==
            AccessLogsBucket(<<>>, "nlb-access-logs",
                Def([f \in BucketFields |->
                        CASE f = "bucketName" -> Get(pr, "accessLogsS3BucketName")
                          [] f = "encryption" -> Def("S3_MANAGED")
                          [] OTHER -> Absent]))
        tls == TruthyObj(Get(pr, "endToEndTlsConfig"))
        allowFromVpc(port) == [peer |-> VpcCidrBlock, port |-> port]
        built ==
            [ type |-> "NlbFargateService",
              id |-> id,
              children |-> <<nlbFargateService>> \o dataProtection.created \o bucket.scope,
              props |-> serviceProps,
              dependencies |-> dataProtection.dependencies,
              logGroupPolicies |-> dataProtection.attached,
              accessLogs |-> [bucket |-> "nlb-access-logs",
                              prefix |-> "nlb-fargate-access-logs"],
              listener |->
                  IF tls THEN [port |-> Def(443), protocol |-> Def("TCP")]
                  ELSE [port |-> Undefined, protocol |-> Undefined],
              targetGroup |->
                  [ port |-> IF tls THEN Def(JLB_RELAY_PORT) ELSE Undefined,
                    protocol |-> IF tls THEN Def("TCP") ELSE Undefined,
                    healthCheck |->
                        [ port |-> IF tls THEN NumberToString(JLB_RELAY_PORT)
                                   ELSE "traffic-port",
                          protocol |-> "TCP" ],
                    attributes |->
                        (IF tls
                         THEN << [key |-> "proxy_protocol_v2.enabled", value |-> "false"] >>
                         ELSE <<>>)
                        \o << [ key |-> "deregistration_delay.timeout_seconds",
                                value |-> DeregistrationDelaySeconds(pr) ] >> ],
              ingress |->
                  IF tls THEN <<allowFromVpc(JLB_RELAY_PORT)>>
                  ELSE <<allowFromVpc(80), allowFromVpc(8080)>> ]
        \* The construct as the constructor leaves it when the data protection
        \* policy throws: nothing after that call has happened.
        interrupted ==
            [ type |-> "NlbFargateService",
              id |-> id,
              children |-> <<nlbFargateService>> \o dataProtection.created,
              props |-> serviceProps,
              dependencies |-> dataProtection.dependencies,
              logGroupPolicies |-> dataProtection.attached,
              accessLogs |-> Undefined,
              listener |-> [port |-> Undefined, protocol |-> Undefined],
              targetGroup |-> Undefined,
              ingress |-> <<>> ]
    IN IF dataProtection.threw
       THEN [threw |-> TRUE, scope |-> Append(scope, interrupted)]
       ELSE [threw |-> FALSE, scope |-> Append(scope, built)]

-----------------------------------------------------------------------------
(* Inputs of the Fargate service constructs.                               *)

\* A container of a task definition: whether it logs with the awslogs
\* driver, which gives it a child with id 'LogGroup', and its port.
Container(id, hasLogGroup, containerPort) ==
    [id |-> id, hasLogGroup |-> hasLogGroup, containerPort |-> containerPort]

\* Task definitions: without a container, with the application container,
\* and with the application container and the JlbRelay container that
\* JlbRelaySidecar adds and makes the default container.
TaskDefinitions ==
    { [containers |-> <<>>, defaultContainer |-> Undefined] }
    \cup { [ containers |-> <<Container("App", lg, Def(8443))>>,
             defaultContainer |-> Def(Container("App", lg, Def(8443))) ] :
           lg \in BOOLEAN }
    \cup { [ containers |-> << Container("App", TRUE, Undefined),
                               Container("JlbRelay", TRUE, Def(JLB_RELAY_PORT)) >>,
             defaultContainer |-> Def(Container("JlbRelay", TRUE, Def(JLB_RELAY_PORT))) ] }

EcsCluster == [type |-> "Cluster", id |-> "Cluster", vpc |-> "Vpc"]

\* A CustomApplicationLoadBalancer that exists before the call.
LoadBalancer ==
    [ type |-> "CustomApplicationLoadBalancer", id |-> "Alb",
      securityGroup |-> "ALBSecurityGroup", targetGroup |-> "ECS" ]

\* dataProtectionPolicyProps: not given; given empty; with an audit log group
\* name, empty or not; excluding every default; adding and excluding.
DataProtectionPolicyPropsSet ==
    { Undefined,
      Def([ auditLogGroupName |-> Undefined,
            addToDefaultDataIdentifiers |-> Undefined,
            excludeFromDefaultDataIdentifiers |-> Undefined ]),
      Def([ auditLogGroupName |-> Def(""),
            addToDefaultDataIdentifiers |-> Undefined,
            excludeFromDefaultDataIdentifiers |-> Undefined ]),
      Def([ auditLogGroupName |-> Def("audit"),
            addToDefaultDataIdentifiers |-> Undefined,
            excludeFromDefaultDataIdentifiers |-> Undefined ]),
      Def([ auditLogGroupName |-> Undefined,
            addToDefaultDataIdentifiers |-> Undefined,
            excludeFromDefaultDataIdentifiers |-> Def(DEFAULT_SENSITIVE_DATA_IDENTIFIERS) ]),
      Def([ auditLogGroupName |-> Def("audit"),
            addToDefaultDataIdentifiers |-> Def(<<NAME_US_DATA_IDENTIFIER>>),
            excludeFromDefaultDataIdentifiers |-> Def(<<ADDRESS_DATA_IDENTIFIER>>) ]) }

\* The largest count, percentage and number of seconds supplied.
MaxSupplied == 1

Counts == {Absent} \cup {Def(n) : n \in 0..MaxSupplied}
Percents == {Absent} \cup {Def(50 * n) : n \in 0..MaxSupplied}
Durations == {Absent} \cup {Def([seconds |-> 30 * n]) : n \in 0..MaxSupplied}

AlbFargateServicePropsSet ==
    [ ecsCluster : {EcsCluster},
      loadBalancer : {LoadBalancer},
      taskDefinition : TaskDefinitions,
      platformVersion : {Absent, Def("VERSION1_4")},
      desiredCount : Counts,
      minHealthyPercent : Percents,
      maxHealthyPercent : {Absent, Def(150)},
      healthCheckGracePeriod : Durations,
      serviceName : {Absent, Def(""), Def("svc")},
      dataProtectionPolicyProps : DataProtectionPolicyPropsSet ]

NlbFargateServicePropsSet ==
    [ ecsCluster : {EcsCluster},
      taskDefinition : TaskDefinitions,
      accessLogsS3BucketName : {Absent, Def("nlb-logs")},
      publicAccessEnabled : {Absent, Def(TRUE)},
      platformVersion : {Absent},
      desiredCount : Counts,
      minHealthyPercent : Percents,
      maxHealthyPercent : {Absent, Def(150)},
      healthCheckGracePeriod : {Absent, Def([seconds |-> 0])},
      deregistrationDelay : Durations,
      endToEndTlsConfig : {Absent, Def(EmptyObject)},
      circuitBreakerEnabled : {Absent} \cup Booleans,
      circuitBreaker : {Absent, Def([rollback |-> TRUE])},
      dataProtectionPolicyProps : DataProtectionPolicyPropsSet ]

-----------------------------------------------------------------------------
Init ==
    /\ op = "none"
    /\ props = Undefined
    /\ out = Undefined

\* A call of cloudwatchDataProtectionPolicy(p).
CallCloudwatchDataProtectionPolicy ==
    /\ op = "none"
    /\ \E p \in CwDataProtectionPolicyProps :
        /\ op' = "cloudwatchDataProtectionPolicy"
        /\ props' = p
        /\ out' = cloudwatchDataProtectionPolicy(p)

NextPolicy == CallCloudwatchDataProtectionPolicy

\* new SQSQueue(scope, 'Queue', p) on an empty scope.
ConstructSQSQueue ==
    /\ op = "none"
    /\ \E p \in SQSQueuePropsSet :
        /\ op' = "SQSQueue"
        /\ props' = p
        /\ out' = SQSQueue(<<>>, "Queue", p)

NextSQS == ConstructSQSQueue

\* new Bucket(scope, 'Bucket', p) on an empty scope.
ConstructBucket ==
    /\ op = "none"
    /\ \E p \in BucketPropsSet :
        /\ op' = "Bucket"
        /\ props' = p
        /\ out' = Bucket(<<>>, "Bucket", p, "Bucket")

NextBucket == ConstructBucket

SpecBucket == Init /\ [][NextBucket]_vars

\* new AccessLogsBucket(scope, 'Logs', p) on an empty scope.
ConstructAccessLogsBucket ==
    /\ op = "none"
    /\ \E p \in AccessLogsBucketPropsSet :
        /\ op' = "AccessLogsBucket"
        /\ props' = p
        /\ out' = AccessLogsBucket(<<>>, "Logs", p)

\* new SnsTopic(scope, 'Topic', p) on an empty scope.
ConstructSnsTopic ==
    /\ op = "none"
    /\ \E p \in SnsTopicPropsSet :
        /\ op' = "SnsTopic"
        /\ props' = p
        /\ out' = SnsTopic(<<>>, "Topic", p)

NextSns == ConstructSnsTopic

SpecSns == Init /\ [][NextSns]_vars

\* new DynamoDBTable(scope, 'Table', p) on an empty scope.
ConstructDynamoDBTable ==
    /\ op = "none"
    /\ \E p \in DynamoDBTablePropsSet :
        /\ op' = "DynamoDBTable"
        /\ props' = p
        /\ out' = DynamoDBTable(<<>>, "Table", p)

NextDynamoDB == ConstructDynamoDBTable

SpecDynamoDB == Init /\ [][NextDynamoDB]_vars

\* new DynamoDBTable(scope, 'Table', p) for a table that indexes are added to.
ConstructTableForIndexes ==
    /\ op = "none"
    /\ \E p \in TablesForIndexes :
        /\ op' = "DynamoDBTable"
        /\ props' = p
        /\ out' = DynamoDBTable(<<>>, "Table", p)

\* table.addGlobalSecondaryIndex(p) on the table constructed before; the call
\* after one that threw finds the table as that call left it.
CallAddGlobalSecondaryIndex ==
    /\ op \in {"DynamoDBTable", "addGlobalSecondaryIndex"}
    /\ out.scope # <<>>
    /\ Len(out.scope[1].globalSecondaryIndexes) < MaxIndexes
    /\ \E p \in GlobalSecondaryIndexPropsSet(Len(out.scope[1].globalSecondaryIndexes) + 1) :
        LET result == addGlobalSecondaryIndex(out.scope[1], p)
        IN /\ op' = "addGlobalSecondaryIndex"
           /\ props' = Def(p)
           /\ out' = [threw |-> result.threw, scope |-> <<result.table>>]

NextIndexes ==
    \/ ConstructTableForIndexes
    \/ CallAddGlobalSecondaryIndex

SpecIndexes == Init /\ [][NextIndexes]_vars

\* Any of the wrapper constructors.
Next ==
    \/ ConstructBucket
    \/ ConstructSQSQueue
    \/ ConstructSnsTopic
    \/ ConstructDynamoDBTable

Spec == Init /\ [][Next]_vars

SpecSQS == Init /\ [][NextSQS]_vars

\* The constructors that create a companion of their own kind, and the
\* companion's constructor.
NextCompanions ==
    \/ ConstructSQSQueue
    \/ ConstructBucket
    \/ ConstructAccessLogsBucket

SpecCompanions == Init /\ [][NextCompanions]_vars

\* A call of SQSQueue.getQueueNameForFifoDlq(queueName).
CallGetQueueNameForFifoDlq ==
    /\ op = "none"
    /\ \E queueName \in FifoDlqNameInputs :
        /\ op' = "getQueueNameForFifoDlq"
        /\ props' = Def(queueName)
        /\ out' = getQueueNameForFifoDlq(queueName)

NextFifoDlqName == CallGetQueueNameForFifoDlq

SpecFifoDlqName == Init /\ [][NextFifoDlqName]_vars

\* new AlbFargateService(scope, 'AlbService', p) on an empty scope.
ConstructAlbFargateService ==
    /\ op = "none"
    /\ \E pr \in AlbFargateServicePropsSet :
        /\ op' = "AlbFargateService"
        /\ props' = Def(pr)
        /\ out' = AlbFargateService(<<>>, "AlbService", pr)

\* new NlbFargateService(scope, 'NlbService', p) on an empty scope.
ConstructNlbFargateService ==
    /\ op = "none"
    /\ \E pr \in NlbFargateServicePropsSet :
        /\ op' = "NlbFargateService"
        /\ props' = Def(pr)
        /\ out' = NlbFargateService(<<>>, "NlbService", pr)

NextFargate ==
    \/ ConstructAlbFargateService
    \/ ConstructNlbFargateService

SpecFargate == Init /\ [][NextFargate]_vars

SpecPolicy == Init /\ [][NextPolicy]_vars

-----------------------------------------------------------------------------
(* Claims about cloudwatchDataProtectionPolicy.                            *)

PolicyCalled == op = "cloudwatchDataProtectionPolicy"
PolicyReturned == PolicyCalled /\ ~out.threw

BagOfList(list) ==
    [x \in Range(list) |-> Cardinality({i \in 1..Len(list) : list[i] = x})]

\* The defaults plus the additions minus the exclusions, as a list with
\* multiplicities: each exclusion entry takes away one occurrence.
DefaultsPlusAddedMinusExcluded(p) ==
    (BagOfList(DEFAULT_SENSITIVE_DATA_IDENTIFIERS)
        (+) BagOfList(Coalesce(p.addToDefaultDataIdentifiers, Def(<<>>)).v))
    (-) BagOfList(Coalesce(p.excludeFromDefaultDataIdentifiers, Def(<<>>)).v)

Ascending(list) == \A i \in 1..(Len(list) - 1) : ~StrLess(list[i + 1], list[i])
NoDuplicate(list) == \A i, j \in 1..Len(list) : i # j => list[i] # list[j]

C2_TwoStatementDocument ==
    PolicyReturned =>
        LET doc == out.policy
        IN /\ Len(doc.Statement) = 2
           /\ DOMAIN doc.Statement[1].Operation = {"Deidentify"}
           /\ DOMAIN doc.Statement[2].Operation = {"Audit"}
           /\ doc.Statement[1].DataIdentifier = doc.Statement[2].DataIdentifier
           /\ doc.Statement[2].Operation.Audit.FindingsDestination =
                 IF IsDef(props.auditLogGroupName) /\ props.auditLogGroupName.v # ""
                 THEN [CloudWatchLogs |-> [LogGroup |-> props.auditLogGroupName.v]]
                 ELSE EmptyObject
           /\ doc.Name = "data-protection-policy"
           /\ doc.Description = "Data protection policy for cloudwatch logs"
           /\ doc.Version = "2021-06-01"

\* A document returned for a supplied audit log group name.
C2_Witness ==
    /\ PolicyReturned
    /\ IsDef(props.auditLogGroupName)
    /\ out.policy.Statement[2].Operation.Audit.FindingsDestination # EmptyObject
    /\ Len(out.policy.Statement[2].DataIdentifier) >= 2

-----------------------------------------------------------------------------
(* Claims about SQSQueue.                                                  *)

SQSBuilt == op = "SQSQueue" /\ ~out.threw

\* The queue the call constructed and the other constructs it created.
PrimaryOf(o) == o.scope[Len(o.scope)]
CreatedOfType(o, t) == {i \in 1..Len(o.scope) : o.scope[i].type = t}
Companions(o, t) == {i \in 1..(Len(o.scope) - 1) : o.scope[i].type = t}

\* C3: a companion dead-letter queue is created exactly when
\* enableDeadLetterQueue is not false and no deadLetterQueue is supplied, with
\* maxReceiveCount dlqMaxReceiveCount when given and 100 otherwise; a supplied
\* deadLetterQueue is the queue's DLQ and the deadLetterQueue property and
\* nothing is created; with enableDeadLetterQueue false and none supplied the
\* queue has no DLQ.
C3_CompanionDeadLetterQueue ==
    SQSBuilt =>
        LET pr == props.v
            supplied == IsDef(Get(pr, "deadLetterQueue"))
            notDisabled == Get(pr, "enableDeadLetterQueue") # Def(FALSE)
            created == Companions(out, "Queue")
            queue == PrimaryOf(out)
        IN /\ Cardinality(created) = (IF notDisabled /\ ~supplied THEN 1 ELSE 0)
           /\ \A i \in created :
                 /\ IsDef(queue.deadLetterQueue)
                 /\ queue.deadLetterQueue.v.queue.id = out.scope[i].id
                 /\ queue.deadLetterQueue.v.maxReceiveCount =
                       (IF IsDef(Get(pr, "dlqMaxReceiveCount"))
                        THEN Get(pr, "dlqMaxReceiveCount").v ELSE 100)
           /\ supplied =>
                 /\ queue.props.deadLetterQueue = Get(pr, "deadLetterQueue")
                 /\ queue.deadLetterQueue = Get(pr, "deadLetterQueue")
           /\ (~notDisabled /\ ~supplied) =>
                 /\ queue.props.deadLetterQueue = Undefined
                 /\ queue.deadLetterQueue = Undefined

\* A queue built with its companion, for a dlqMaxReceiveCount of 0.
C3_Witness ==
    /\ SQSBuilt
    /\ Cardinality(Companions(out, "Queue")) = 1
    /\ Get(props.v, "dlqMaxReceiveCount") = Def(0)
    /\ PrimaryOf(out).props.deadLetterQueue.v.maxReceiveCount = 0

\* The name the dead-letter queue of a named queue is to get.
ExpectedDlqName(pr) ==
    LET name == Get(pr, "queueName").v
    IN IF Get(pr, "fifo") = Def(TRUE)
       THEN SubSeq(name, 1, Len(name) - 5) \o "-dlq" \o ".fifo"
       ELSE name \o "-dlq"

IsProperPrefix(s, t) == Len(s) < Len(t) /\ SubSeq(t, 1, Len(s)) = s

-----------------------------------------------------------------------------
(* Claims about Bucket.                                                    *)

BucketBuilt == op = "Bucket" /\ ~out.threw

\* C5: an access-log bucket, an AccessLogsBucket, is created exactly when
\* enableAccessLogging is not false and no serverAccessLogsBucket is supplied;
\* a supplied one is used as it is and nothing is created; the
\* serverAccessLogsBucket property is the created or supplied bucket, and
\* undefined when logging is disabled and none is supplied.
C5_AccessLogsBucket ==
    BucketBuilt =>
        LET pr == props.v
            supplied == IsDef(Get(pr, "serverAccessLogsBucket"))
            notDisabled == Get(pr, "enableAccessLogging") # Def(FALSE)
            created == Companions(out, "Bucket")
            bucket == PrimaryOf(out)
        IN /\ Cardinality(created) = (IF notDisabled /\ ~supplied THEN 1 ELSE 0)
           /\ \A i \in created :
                 /\ out.scope[i].class = "AccessLogsBucket"
                 /\ bucket.serverAccessLogsBucket = Def(BucketRef(out.scope[i]))
           /\ supplied =>
                 /\ bucket.serverAccessLogsBucket = Get(pr, "serverAccessLogsBucket")
                 /\ bucket.props.serverAccessLogsBucket = Get(pr, "serverAccessLogsBucket")
           /\ (~notDisabled /\ ~supplied) => bucket.serverAccessLogsBucket = Undefined

\* A bucket built with its access-log bucket, exposed as the property.
C5_Witness ==
    /\ BucketBuilt
    /\ Cardinality(Companions(out, "Bucket")) = 1
    /\ IsDef(PrimaryOf(out).serverAccessLogsBucket)
    /\ PrimaryOf(out).serverAccessLogsBucket.v.id = "BucketAccessLog"

-----------------------------------------------------------------------------
(* Claims about several wrappers.                                          *)

SnsBuilt == op = "SnsTopic" /\ ~out.threw

\* A statement that denies requests made without secure transport.
DeniesInsecureTransport(statement) ==
    /\ statement.effect = "Deny"
    /\ statement.condition =
          [test |-> "Bool", key |-> "aws:SecureTransport", value |-> "false"]

HasSecureTransportStatement(construct) ==
    \E i \in 1..Len(construct.policy) : DeniesInsecureTransport(construct.policy[i])

\* C7: the resource policy of a Bucket, an SQSQueue or an SnsTopic has the
\* statement that denies aws:SecureTransport = 'false' exactly when
\* requireSecureTransport is not false.
C7_SecureTransportByDefault ==
    (BucketBuilt \/ SQSBuilt \/ SnsBuilt) =>
        (HasSecureTransportStatement(PrimaryOf(out))
            <=> Get(props.v, "requireSecureTransport") # Def(FALSE))

\* An SQSQueue built without requireSecureTransport, with the statement.
C7_Witness ==
    /\ SQSBuilt
    /\ Get(props.v, "requireSecureTransport") = Undefined
    /\ HasSecureTransportStatement(PrimaryOf(out))

\* The key property of each wrapper, and whether its props call for
\* customer-managed encryption.
KeyField == IF op = "Bucket" THEN "encryptionKey"
            ELSE IF op = "SQSQueue" THEN "encryptionMasterKey" ELSE "masterKey"

CustomerManaged(pr) ==
    IF op = "SnsTopic" THEN Get(pr, "enableEncryption") # Def(FALSE)
    ELSE ~IsDef(Get(pr, "encryption")) \/ Get(pr, "encryption") = Def("KMS")

-----------------------------------------------------------------------------
(* Claims about DynamoDBTable.                                             *)

TableCalled == op = "DynamoDBTable" /\ IsDef(props)
TableBuilt == op = "DynamoDBTable" /\ ~out.threw

\* The value forwarded for a field: the supplied value, or the default when
\* the field is omitted.
ForwardedOrDefault(pr, f, default) ==
    /\ pr[f] = Absent => PrimaryOf(out).props[f] = Def(default)
    /\ IsDef(pr[f]) => PrimaryOf(out).props[f] = pr[f]

\* C9: a PROVISIONED table without readScalingProps or writeScalingProps
\* fails; with both, the capacities that are omitted are the minCapacity of
\* the scaling props and read and write auto-scaling on utilization (60
\* percent, cool-downs of 60 s) is configured; for another billing mode
\* nothing fails and no auto-scaling is configured.
C9_ProvisionedNeedsScaling ==
    TableCalled =>
        LET pr == props.v
            provisioned == Get(pr, "billingMode") = Def("PROVISIONED")
            bothGiven == IsDef(Get(pr, "readScalingProps")) /\ IsDef(Get(pr, "writeScalingProps"))
            utilization ==
                [ targetUtilizationPercent |-> 60,
                  scaleInCooldown |-> [seconds |-> 60],
                  scaleOutCooldown |-> [seconds |-> 60] ]
        IN /\ out.threw <=> (provisioned /\ ~bothGiven)
           /\ (provisioned /\ bothGiven) =>
                 /\ ForwardedOrDefault(pr, "readCapacity", pr.readScalingProps.v.minCapacity)
                 /\ ForwardedOrDefault(pr, "writeCapacity", pr.writeScalingProps.v.minCapacity)
                 /\ PrimaryOf(out).autoScaling =
                       << [ dimension |-> "read", scalingProps |-> pr.readScalingProps,
                            scaleOnUtilization |-> utilization ],
                          [ dimension |-> "write", scalingProps |-> pr.writeScalingProps,
                            scaleOnUtilization |-> utilization ] >>
           /\ ~provisioned => PrimaryOf(out).autoScaling = <<>>

\* A PROVISIONED table built without readCapacity: it gets the minCapacity.
C9_Witness ==
    /\ TableBuilt
    /\ Get(props.v, "billingMode") = Def("PROVISIONED")
    /\ props.v.readCapacity = Absent
    /\ PrimaryOf(out).props.readCapacity = Def(5)
    /\ Len(PrimaryOf(out).autoScaling) = 2

\* C10: billingMode, encryption, pointInTimeRecovery and deletionProtection
\* are PAY_PER_REQUEST, CUSTOMER_MANAGED, true and true when omitted, and any
\* supplied value, also false, is forwarded unchanged.
C10_TableDefaults ==
    TableBuilt =>
        /\ ForwardedOrDefault(props.v, "billingMode", "PAY_PER_REQUEST")
        /\ ForwardedOrDefault(props.v, "encryption", "CUSTOMER_MANAGED")
        /\ ForwardedOrDefault(props.v, "pointInTimeRecovery", TRUE)
        /\ ForwardedOrDefault(props.v, "deletionProtection", TRUE)

\* A table built with pointInTimeRecovery false and deletionProtection
\* omitted.
C10_Witness ==
    /\ TableBuilt
    /\ props.v.pointInTimeRecovery = Def(FALSE)
    /\ props.v.deletionProtection = Absent
    /\ PrimaryOf(out).props.pointInTimeRecovery = Def(FALSE)
    /\ PrimaryOf(out).props.deletionProtection = Def(TRUE)

-----------------------------------------------------------------------------
(* Claims about the encryption defaults of Bucket and SQSQueue.            *)

CreatedKeyIsForwarded ==
    /\ Cardinality(Companions(out, "Key")) = 1
    /\ \A i \in Companions(out, "Key") :
          PrimaryOf(out).props[KeyField] = Def(KeyRef(out.scope[i]))

-----------------------------------------------------------------------------
(* Claims about the validation of fifo queue names.                        *)

\* A call of the SQSQueue constructor for a fifo queue with a name, not the
\* empty one, that lacks the '.fifo' suffix.
FifoNameWithoutSuffix ==
    /\ op = "SQSQueue"
    /\ IsDef(props)
    /\ Get(props.v, "fifo") = Def(TRUE)
    /\ IsDef(Get(props.v, "queueName"))
    /\ Get(props.v, "queueName").v # ""
    /\ ~EndsWith(Get(props.v, "queueName").v, ".fifo")

-----------------------------------------------------------------------------
(* Claims about AlbFargateService and NlbFargateService.                   *)

FargateCalled == op \in {"AlbFargateService", "NlbFargateService"}
NlbCalled == op = "NlbFargateService"

\* The audit log groups among the constructs the call created.
AuditLogGroups(construct) ==
    {i \in 1..Len(construct.children) : construct.children[i].type = "LogGroup"}

\* C14: when dataProtectionPolicyProps is omitted, AlbFargateService and
\* NlbFargateService attach no data protection policy to the log group of the
\* service and create no audit log group.
C14_NoPolicyWhenOmitted ==
    (FargateCalled /\ Get(props.v, "dataProtectionPolicyProps") = Undefined) =>
        /\ PrimaryOf(out).logGroupPolicies = <<>>
        /\ AuditLogGroups(PrimaryOf(out)) = {}

\* C15: NlbFargateService passes a circuit breaker to the service exactly
\* when circuitBreakerEnabled is omitted or true, the supplied circuitBreaker
\* if there is one and {rollback: false} otherwise; when circuitBreakerEnabled
\* is false it passes none, also when a circuitBreaker is supplied.
C15_CircuitBreaker ==
    NlbCalled =>
        LET pr == props.v
            enabled == Get(pr, "circuitBreakerEnabled") # Def(FALSE)
            forwarded == PrimaryOf(out).props.circuitBreaker
        IN /\ IsDef(forwarded) <=> enabled
           /\ enabled =>
                 forwarded = (IF IsDef(Get(pr, "circuitBreaker"))
                              THEN Get(pr, "circuitBreaker")
                              ELSE Def([rollback |-> FALSE]))

\* An NlbFargateService with circuitBreakerEnabled false and a circuitBreaker
\* supplied: none is passed on.
C15_Witness ==
    /\ NlbCalled
    /\ ~out.threw
    /\ Get(props.v, "circuitBreakerEnabled") = Def(FALSE)
    /\ IsDef(Get(props.v, "circuitBreaker"))
    /\ PrimaryOf(out).props.circuitBreaker = Undefined

\* C16: for AlbFargateService and NlbFargateService, desiredCount,
\* minHealthyPercent, maxHealthyPercent and healthCheckGracePeriod are 1, 100,
\* 200 and 60 s exactly when the field is omitted, and every supplied value,
\* also 0, is forwarded unchanged to the service.
C16_ServiceDefaults ==
    FargateCalled =>
        /\ ForwardedOrDefault(props.v, "desiredCount", 1)
        /\ ForwardedOrDefault(props.v, "minHealthyPercent", 100)
        /\ ForwardedOrDefault(props.v, "maxHealthyPercent", 200)
        /\ ForwardedOrDefault(props.v, "healthCheckGracePeriod", [seconds |-> 60])

-----------------------------------------------------------------------------
(* Claims about the policy statements of Bucket.                           *)

\* A statement that denies s3:PutObject to everyone when the request carries
\* no s3:x-amz-server-side-encryption-aws-kms-key-id.
DeniesPutWithoutKmsKeyId(statement) ==
    /\ statement.effect = "Deny"
    /\ statement.actions = {"s3:PutObject"}
    /\ statement.principals = {"AnyPrincipal"}
    /\ statement.condition.test = "Null"
    /\ statement.condition.key = "s3:x-amz-server-side-encryption-aws-kms-key-id"

HasPutWithoutKmsKeyIdStatement(bucket) ==
    \E i \in 1..Len(bucket.policy) : DeniesPutWithoutKmsKeyId(bucket.policy[i])

\* C17: a bucket has the DENY s3:PutObject statement exactly when the
\* encryption forwarded to the underlying bucket is KMS, supplied or taken by
\* default; for every other encryption the statement is absent.  Stated of
\* the Bucket and of the access-log bucket created with it.
C17_PutObjectNeedsKmsKey ==
    BucketBuilt =>
        /\ \A i \in CreatedOfType(out, "Bucket") :
              HasPutWithoutKmsKeyIdStatement(out.scope[i])
                  <=> out.scope[i].props.encryption = Def("KMS")
        /\ props.v.encryption \in {Absent, Def("KMS")} =>
              HasPutWithoutKmsKeyIdStatement(PrimaryOf(out))
        /\ (IsDef(props.v.encryption) /\ props.v.encryption # Def("KMS")) =>
              ~HasPutWithoutKmsKeyIdStatement(PrimaryOf(out))

\* A Bucket built without the encryption field: it has the statement and its
\* access-log bucket, S3_MANAGED, has not.
C17_Witness ==
    /\ BucketBuilt
    /\ props.v.encryption = Absent
    /\ HasPutWithoutKmsKeyIdStatement(PrimaryOf(out))
    /\ Companions(out, "Bucket") # {}
    /\ \A i \in Companions(out, "Bucket") :
          ~HasPutWithoutKmsKeyIdStatement(out.scope[i])

-----------------------------------------------------------------------------
(* Claims about the grants of SnsTopic.                                    *)

\* The grants a topic with the given master key is to make for a principal
\* allowed to publish and for one allowed to subscribe.
ExpectedPublishGrants(key, principal) ==
    { [on |-> "topic", grant |-> "sns:Publish", principal |-> principal] }
    \cup (IF IsDef(key)
          THEN { [on |-> key.v, grant |-> g, principal |-> principal] :
                    g \in {"Encrypt", "Decrypt"} }
          ELSE {})

ExpectedSubscribeGrants(key, principal) ==
    { [on |-> "topic", grant |-> "sns:Subscribe", principal |-> principal] }
    \cup (IF IsDef(key)
          THEN { [on |-> key.v, grant |-> "Decrypt", principal |-> principal] }
          ELSE {})

\* C18: the grants of an SnsTopic are those of its lists and no other: every
\* principal allowed to publish has sns:Publish on the topic, and encrypt and
\* decrypt on the master key of the topic when there is one; every principal
\* allowed to subscribe has sns:Subscribe, and decrypt on the master key when
\* there is one; a principal in neither list has no grant; without a master
\* key every grant is on the topic.
C18_GrantsOnlyToListed ==
    SnsBuilt =>
        LET topic == PrimaryOf(out)
            publishers == Range(Principals(Get(props.v, "principalsAllowedToPublish")))
            subscribers == Range(Principals(Get(props.v, "principalsAllowedToSubscribe")))
        IN /\ Range(topic.grants) =
                 UNION ( {ExpectedPublishGrants(topic.masterKey, p) : p \in publishers}
                         \cup {ExpectedSubscribeGrants(topic.masterKey, p) :
                                  p \in subscribers} )
           /\ \A i \in 1..Len(topic.grants) :
                 /\ topic.grants[i].principal \in publishers \cup subscribers
                 /\ ~IsDef(topic.masterKey) => topic.grants[i].on = "topic"

\* A topic built with a key of its own, two publishers and two subscribers,
\* one principal in both lists.
C18_Witness ==
    /\ SnsBuilt
    /\ Companions(out, "Key") # {}
    /\ Len(Principals(Get(props.v, "principalsAllowedToPublish"))) = 2
    /\ Len(Principals(Get(props.v, "principalsAllowedToSubscribe"))) = 2
    /\ Len(PrimaryOf(out).grants) = 10

-----------------------------------------------------------------------------
(* Claims about fields that are present in props with the value undefined. *)

\* The forwarded value of a field whose supplied value is undefined, the key
\* being absent or present, is the default.
DefaultWhenUndefined(pr, f, default) ==
    Get(pr, f) = Undefined => PrimaryOf(out).props[f] = Def(default)

\* C19: for Bucket, SQSQueue, SnsTopic and DynamoDBTable the forwarded
\* configuration carries the default, or the created key, dead-letter queue
\* or access-log bucket, for every defaulted field whose supplied value is
\* undefined, the key being absent from props or present with undefined; the
\* masterKey of an SnsTopic and the deadLetterQueue of an SQSQueue are the
\* ones forwarded to the underlying resource.
C19_DefaultsSurviveUndefined ==
    /\ SnsBuilt =>
          /\ PrimaryOf(out).masterKey = PrimaryOf(out).props.masterKey
          /\ Companions(out, "Key") # {} => CreatedKeyIsForwarded
    /\ SQSBuilt =>
          /\ PrimaryOf(out).deadLetterQueue = PrimaryOf(out).props.deadLetterQueue
          /\ DefaultWhenUndefined(props.v, "encryption", "KMS")
          /\ DefaultWhenUndefined(props.v, "retentionPeriod", [days |-> 14])
          /\ Companions(out, "Key") # {} => CreatedKeyIsForwarded
    /\ BucketBuilt =>
          /\ PrimaryOf(out).serverAccessLogsBucket =
                PrimaryOf(out).props.serverAccessLogsBucket
          /\ DefaultWhenUndefined(props.v, "encryption", "KMS")
          /\ DefaultWhenUndefined(props.v, "enableAccessLogging", TRUE)
          /\ DefaultWhenUndefined(props.v, "versioned", TRUE)
          /\ DefaultWhenUndefined(props.v, "blockPublicAccess", "BLOCK_ALL")
          /\ Companions(out, "Key") # {} => CreatedKeyIsForwarded
    /\ TableBuilt =>
          /\ DefaultWhenUndefined(props.v, "billingMode", "PAY_PER_REQUEST")
          /\ DefaultWhenUndefined(props.v, "encryption", "CUSTOMER_MANAGED")
          /\ DefaultWhenUndefined(props.v, "pointInTimeRecovery", TRUE)
          /\ DefaultWhenUndefined(props.v, "deletionProtection", TRUE)

-----------------------------------------------------------------------------
(* Claims about getQueueNameForFifoDlq.                                    *)

FifoDlqNameCalled == op = "getQueueNameForFifoDlq"

\* C20: for a queue name q that ends in '.fifo', getQueueNameForFifoDlq(q) is
\* q with '-dlq' put right before the final '.fifo': it ends in '.fifo', has
\* four characters more than q, and without the '-dlq' before its final
\* '.fifo' it is q, also when '.fifo' occurs in q more than once; for a q that
\* does not end in '.fifo' the call throws.
C20_DlqBeforeFinalFifo ==
    FifoDlqNameCalled =>
        LET q == props.v
        IN IF Len(q) >= 5 /\ SubSeq(q, Len(q) - 4, Len(q)) = ".fifo"
           THEN /\ ~out.threw
                /\ LET r == out.value
                   IN /\ Len(r) = Len(q) + 4
                      /\ SubSeq(r, Len(r) - 4, Len(r)) = ".fifo"
                      /\ SubSeq(r, Len(r) - 8, Len(r) - 5) = "-dlq"
                      /\ SubSeq(r, 1, Len(r) - 9) \o SubSeq(r, Len(r) - 4, Len(r)) = q
           ELSE out.threw

\* A name with '.fifo' inside it and at its end, for which a name is returned.
C20_Witness ==
    /\ FifoDlqNameCalled
    /\ ~out.threw
    /\ \E i \in 1..(Len(props.v) - 9) : SubSeq(props.v, i, i + 4) = ".fifo"
    /\ out.value = SubSeq(props.v, 1, Len(props.v) - 5) \o "-dlq.fifo"

-----------------------------------------------------------------------------
(* Claims about the exclusions of cloudwatchDataProtectionPolicy.          *)

\* C21: no identifier listed in excludeFromDefaultDataIdentifiers is in a
\* DataIdentifier list of the returned document, whatever the additions are,
\* also when they repeat an identifier or one of the defaults.
C21_ExcludedNeverListed ==
    (PolicyReturned /\ IsDef(props.excludeFromDefaultDataIdentifiers)) =>
        \A i \in 1..Len(out.policy.Statement) :
            Range(props.excludeFromDefaultDataIdentifiers.v)
                \cap Range(out.policy.Statement[i].DataIdentifier) = {}

-----------------------------------------------------------------------------
(* Claims about the dead-letter queue that SQSQueue creates.               *)

\* C22: a dead-letter queue created by the constructor has the encryption,
\* the encryption master key, the secure-transport policy, the fifo flag and
\* the grants of its primary queue, and a retention period of 14 days; the
\* call creates at most one KMS key, and a created key is the master key of
\* both queues.
C22_DlqMatchesPrimary ==
    SQSBuilt =>
        LET queue == PrimaryOf(out)
            keys == CreatedOfType(out, "Key")
        IN \A i \in Companions(out, "Queue") :
              LET dlq == out.scope[i]
              IN /\ dlq.props.encryption = queue.props.encryption
                 /\ dlq.props.encryptionMasterKey = queue.props.encryptionMasterKey
                 /\ dlq.policy = queue.policy
                 /\ dlq.props.fifo = queue.props.fifo
                 /\ dlq.grants = queue.grants
                 /\ dlq.props.retentionPeriod = Def(MAX_RETENTION_PERIOD)
                 /\ Cardinality(keys) <= 1
                 /\ \A k \in keys :
                       /\ dlq.props.encryptionMasterKey = Def(KeyRef(out.scope[k]))
                       /\ queue.props.encryptionMasterKey = Def(KeyRef(out.scope[k]))

-----------------------------------------------------------------------------
(* Claims about companions of companions.                                  *)

AccessLogsBucketBuilt == op = "AccessLogsBucket" /\ ~out.threw

\* The access-log buckets in the scope the call left.
AccessLogsBuckets(o) ==
    {i \in CreatedOfType(o, "Bucket") : o.scope[i].class = "AccessLogsBucket"}

\* C23: a dead-letter queue created by SQSQueue has no dead-letter queue and
\* an AccessLogsBucket has no access-log bucket, so that a call of SQSQueue
\* creates at most two queues and a call of Bucket at most two buckets; an
\* AccessLogsBucket is S3_MANAGED-encrypted, versioned, blocks all public
\* access and has no key created for it, whatever encryption it is given.
C23_NoCompanionOfCompanion ==
    /\ op = "SQSQueue" =>
          /\ Cardinality(CreatedOfType(out, "Queue")) <= 2
          /\ \A i \in Companions(out, "Queue") :
                /\ out.scope[i].deadLetterQueue = Undefined
                /\ out.scope[i].props.deadLetterQueue = Undefined
    /\ op = "Bucket" => Cardinality(CreatedOfType(out, "Bucket")) <= 2
    /\ op \in {"Bucket", "AccessLogsBucket"} =>
          \A i \in AccessLogsBuckets(out) :
              LET logs == out.scope[i]
              IN /\ logs.serverAccessLogsBucket = Undefined
                 /\ logs.props.serverAccessLogsBucket = Undefined
                 /\ logs.props.enableAccessLogging = Def(FALSE)
                 /\ logs.props.encryption = Def("S3_MANAGED")
                 /\ logs.props.encryptionKey = Undefined
                 /\ logs.props.versioned = Def(TRUE)
                 /\ logs.props.blockPublicAccess = Def("BLOCK_ALL")
                 /\ \A k \in CreatedOfType(out, "Key") :
                       out.scope[k].id # logs.id \o "Key"
    /\ AccessLogsBucketBuilt => Len(out.scope) = 1

\* An AccessLogsBucket built from props that ask for KMS encryption, no
\* versioning and access logging.
C23_Witness ==
    /\ AccessLogsBucketBuilt
    /\ Get(props.v, "encryption") = Def("KMS")
    /\ Get(props.v, "versioned") = Def(FALSE)
    /\ Get(props.v, "enableAccessLogging") = Def(TRUE)
    /\ PrimaryOf(out).props.encryption = Def("S3_MANAGED")
    /\ CreatedOfType(out, "Key") = {}

-----------------------------------------------------------------------------
(* Claims about the default lifecycle rule of Bucket.                      *)

HasDefaultLifecycleRule(bucket) ==
    /\ IsDef(bucket.props.lifecycleRules)
    /\ \E i \in 1..Len(bucket.props.lifecycleRules.v) :
          /\ bucket.props.lifecycleRules.v[i].id = "NonCurrentVersionPolicyForCompliance"
          /\ bucket.props.lifecycleRules.v[i].noncurrentVersionExpiration = [days |-> 90]

\* C24: the bucket has the rule 'NonCurrentVersionPolicyForCompliance', which
\* expires non-current versions after 90 days, exactly when
\* enableDefaultLifecycleRules is not false, versioned is not false and no
\* lifecycleRules are supplied; supplied lifecycleRules are forwarded as they
\* are, without the rule; a bucket that is not versioned does not have it.
C24_DefaultLifecycleRule ==
    BucketBuilt =>
        LET pr == props.v
            bucket == PrimaryOf(out)
        IN /\ HasDefaultLifecycleRule(bucket) <=>
                 /\ Get(pr, "enableDefaultLifecycleRules") # Def(FALSE)
                 /\ Get(pr, "versioned") # Def(FALSE)
                 /\ ~IsDef(Get(pr, "lifecycleRules"))
           /\ IsDef(Get(pr, "lifecycleRules")) =>
                 bucket.props.lifecycleRules = Get(pr, "lifecycleRules")
           /\ bucket.props.versioned # Def(TRUE) => ~HasDefaultLifecycleRule(bucket)

-----------------------------------------------------------------------------
(* Claims about addGlobalSecondaryIndex.                                   *)

IndexCalled == op = "addGlobalSecondaryIndex"

\* The auto-scaling configured for a dimension of an index of the table.
IndexAutoScalingOf(table, indexName, dimension) ==
    {i \in 1..Len(table.indexAutoScaling) :
        /\ table.indexAutoScaling[i].indexName = indexName
        /\ table.indexAutoScaling[i].dimension = dimension}

\* C25: after any sequence of addGlobalSecondaryIndex calls, every index of a
\* PROVISIONED table has read and write utilization auto-scaling and has the
\* minCapacity of its scaling props as each capacity that was not supplied,
\* and a call without readScalingProps or writeScalingProps throws and adds
\* neither an index nor scaling; on a table that is not PROVISIONED every
\* call adds its index, with no auto-scaling, and none throws.
C25_IndexesOfTable ==
    (op \in {"DynamoDBTable", "addGlobalSecondaryIndex"} /\ out.scope # <<>>) =>
        LET table == out.scope[1]
            indexes == table.globalSecondaryIndexes
        IN IF table.props.billingMode = Def("PROVISIONED")
           THEN /\ \A i \in 1..Len(indexes) :
                      /\ \A d \in {"read", "write"} :
                            \E a \in IndexAutoScalingOf(table, indexes[i].indexName.v, d) :
                                table.indexAutoScaling[a].scaleOnUtilization =
                                    DEFAULT_UTILIZATION_SCALING_PROPS
                      /\ IsDef(indexes[i].readCapacity)
                      /\ IsDef(indexes[i].writeCapacity)
                /\ Len(table.indexAutoScaling) = 2 * Len(indexes)
                /\ IndexCalled =>
                      /\ out.threw <=> MissingScalingProps(props.v)
                      /\ ~out.threw =>
                            LET index == indexes[Len(indexes)]
                            IN /\ index.indexName = props.v.indexName
                               /\ ~IsDef(Get(props.v, "readCapacity")) =>
                                     index.readCapacity =
                                        Def(props.v.readScalingProps.v.minCapacity)
                               /\ ~IsDef(Get(props.v, "writeCapacity")) =>
                                     index.writeCapacity =
                                        Def(props.v.writeScalingProps.v.minCapacity)
           ELSE /\ table.indexAutoScaling = <<>>
                /\ IndexCalled =>
                      /\ ~out.threw
                      /\ indexes # <<>>
                      /\ indexes[Len(indexes)].indexName = props.v.indexName

-----------------------------------------------------------------------------
(* Claims about the two modes of NlbFargateService.                        *)

NlbBuilt == NlbCalled /\ ~out.threw

\* The values of an attribute of the target group.
TargetGroupAttribute(service, key) ==
    {service.targetGroup.attributes[i].value :
        i \in {j \in 1..Len(service.targetGroup.attributes) :
                  service.targetGroup.attributes[j].key = key}}

\* C26: with endToEndTlsConfig the listener is TCP on port 443, the target
\* group and its health check are TCP on port 9001 and the ingress allowed to
\* the service is from the VPC CIDR on port 9001 only; without it the ingress
\* is from the VPC CIDR on ports 80 and 8080 only and the health check is on
\* the traffic port.  In both modes the deregistration delay is the supplied
\* number of seconds, and 60 when none is supplied.
C26_NlbModes ==
    NlbBuilt =>
        LET pr == props.v
            service == PrimaryOf(out)
        IN /\ IF IsDef(Get(pr, "endToEndTlsConfig"))
              THEN /\ service.listener = [port |-> Def(443), protocol |-> Def("TCP")]
                   /\ service.targetGroup.port = Def(9001)
                   /\ service.targetGroup.protocol = Def("TCP")
                   /\ service.targetGroup.healthCheck = [port |-> "9001", protocol |-> "TCP"]
                   /\ Range(service.ingress) = {[peer |-> VpcCidrBlock, port |-> 9001]}
              ELSE /\ Range(service.ingress) =
                         {[peer |-> VpcCidrBlock, port |-> 80],
                          [peer |-> VpcCidrBlock, port |-> 8080]}
                   /\ service.targetGroup.healthCheck.port = "traffic-port"
           /\ TargetGroupAttribute(service, "deregistration_delay.timeout_seconds") =
                 { IF IsDef(Get(pr, "deregistrationDelay"))
                   THEN NumberToString(Get(pr, "deregistrationDelay").v.seconds)
                   ELSE "60" }

\* An NlbFargateService in the end-to-end TLS mode with a deregistration
\* delay of 0 seconds.
C26_Witness ==
    /\ NlbBuilt
    /\ IsDef(Get(props.v, "endToEndTlsConfig"))
    /\ Get(props.v, "deregistrationDelay") = Def([seconds |-> 0])
    /\ PrimaryOf(out).listener.port = Def(443)
    /\ TargetGroupAttribute(PrimaryOf(out), "deregistration_delay.timeout_seconds") = {"0"}

-----------------------------------------------------------------------------
(* Claims about the log group that gets the data protection policy.        *)

\* C27: the data protection policy that a Fargate service construct sets up
\* is on the log group of the application container, also for a task
\* definition to which a JlbRelaySidecar was added before.
C27_PolicyOnApplicationLogGroup ==
    (FargateCalled /\ ~out.threw) =>
        \A i \in 1..Len(PrimaryOf(out).logGroupPolicies) :
            PrimaryOf(out).logGroupPolicies[i].logGroup =
                [type |-> "LogGroup", of |-> "App"]

-----------------------------------------------------------------------------
(* Claims about the audit log group.                                       *)

\* The default container of the task definition has a 'LogGroup' child.
DefaultContainerHasLogGroup(taskDefinition) ==
    /\ IsDef(taskDefinition.defaultContainer)
    /\ taskDefinition.defaultContainer.v.hasLogGroup

\* A non-empty auditLogGroupName is given in dataProtectionPolicyProps.
AuditLogGroupNameSupplied(pr) ==
    /\ IsDef(Get(pr, "dataProtectionPolicyProps"))
    /\ IsDef(Get(pr, "dataProtectionPolicyProps").v.auditLogGroupName)
    /\ Get(pr, "dataProtectionPolicyProps").v.auditLogGroupName.v # ""

-----------------------------------------------------------------------------
(* Claims about constructors that throw.                                   *)

ConstructorThrew ==
    /\ op \in {"Bucket", "SQSQueue", "SnsTopic", "DynamoDBTable"}
    /\ out.threw

\* C29: when the constructor of Bucket, SQSQueue, SnsTopic or DynamoDBTable
\* throws, the call has added no construct to the scope: no KMS key, no
\* dead-letter queue, no access-log bucket and no primary resource.
C29_NothingCreatedOnThrow == ConstructorThrew => out.scope = <<>>

=============================================================================
